---------------------------- MODULE Spec2Model ----------------------------
(***************************************************************************)
(* Call-flow orchestration of the voice survey system: the Twilio IVR      *)
(* question flow (voice_handler.py, app.py), the ElevenLabs voice-agent    *)
(* webhook handling and identifier correlation (elevenlabs_handler.py),    *)
(* the keyword answer classifier and the transcript segmenter.             *)
(*                                                                         *)
(* Python values are encoded as follows.                                   *)
(*   str of text      a sequence of one-character strings                  *)
(*   None (for text)  NoneS                                                *)
(*   int n            <<"int", n>>                                         *)
(*   str(n)           <<"str", n>>   (the decimal string of the int n)     *)
(*   provider ids     <<"sid", i>> and <<"conv", i>>                       *)
(*   None (for ids)   NoneV                                                *)
(*   float            an integer number of hundredths (0.9 is 90)          *)
(***************************************************************************)
EXTENDS Integers, Sequences, FiniteSets, TLC
upper_to_lower ==
    ("A" :> "a") @@ ("B" :> "b") @@ ("C" :> "c") @@ ("D" :> "d") @@ ("E" :> "e") @@ ("F" :> "f") @@ ("G" :> "g") @@ ("H" :> "h") @@ ("I" :> "i") @@ ("J" :> "j") @@ ("K" :> "k") @@ ("L" :> "l") @@ ("M" :> "m")
    @@ ("N" :> "n") @@ ("O" :> "o") @@ ("P" :> "p") @@ ("Q" :> "q") @@ ("R" :> "r") @@ ("S" :> "s") @@ ("T" :> "t") @@ ("U" :> "u") @@ ("V" :> "v") @@ ("W" :> "w") @@ ("X" :> "x") @@ ("Y" :> "y") @@ ("Z" :> "z")

lower_to_upper ==
    ("a" :> "A") @@ ("b" :> "B") @@ ("c" :> "C") @@ ("d" :> "D") @@ ("e" :> "E") @@ ("f" :> "F") @@ ("g" :> "G") @@ ("h" :> "H") @@ ("i" :> "I") @@ ("j" :> "J") @@ ("k" :> "K") @@ ("l" :> "L") @@ ("m" :> "M")
    @@ ("n" :> "N") @@ ("o" :> "O") @@ ("p" :> "P") @@ ("q" :> "Q") @@ ("r" :> "R") @@ ("s" :> "S") @@ ("t" :> "T") @@ ("u" :> "U") @@ ("v" :> "V") @@ ("w" :> "W") @@ ("x" :> "X") @@ ("y" :> "Y") @@ ("z" :> "Z")

yes_keywords ==
    << <<"y", "e", "s">>,
       <<"y", "e", "a", "h">>,
       <<"y", "e", "p">>,
       <<"c", "o", "r", "r", "e", "c", "t">>,
       <<"r", "i", "g", "h", "t">>,
       <<"s", "u", "r", "e">>,
       <<"o", "k", "a", "y">>,
       <<"o", "k">>,
       <<"y", "u", "p">>,
       <<"a", "f", "f", "i", "r", "m", "a", "t", "i", "v", "e">> >>
no_keywords ==
    << <<"n", "o">>,
       <<"n", "o", "p", "e">>,
       <<"n", "a", "h">>,
       <<"i", "n", "c", "o", "r", "r", "e", "c", "t">>,
       <<"w", "r", "o", "n", "g">>,
       <<"n", "e", "g", "a", "t", "i", "v", "e">> >>
confirmation_phrases ==
    << <<"i", "s", " ", "t", "h", "a", "t", " ", "c", "o", "r", "r", "e", "c", "t">>,
       <<"y", "o", "u", " ", "s", "a", "i", "d">>,
       <<"d", "i", "d", " ", "i", " ", "h", "e", "a", "r">>,
       <<"c", "o", "n", "f", "i", "r", "m">> >>
greeting_phrases ==
    << <<"h", "o", "w", " ", "c", "a", "n", " ", "i", " ", "h", "e", "l", "p">>,
       <<"c", "a", "l", "l", "i", "n", "g", " ", "f", "o", "r">>,
       <<"m", "a", "y", " ", "i", " ", "p", "r", "o", "c", "e", "e", "d">>,
       <<"c", "a", "n", " ", "i", " ", "h", "e", "l", "p">> >>
phrases_to_remove ==
    << <<"p", "l", "e", "a", "s", "e", " ", "a", "n", "s", "w", "e", "r", " ", "y", "e", "s", " ", "o", "r", " ", "n", "o", " ", "o", "n", "l", "y">>,
       <<"p", "l", "e", "a", "s", "e", " ", "a", "n", "s", "w", "e", "r", " ", "y", "e", "s", " ", "o", "r", " ", "n", "o">>,
       <<"a", "n", "s", "w", "e", "r", " ", "y", "e", "s", " ", "o", "r", " ", "n", "o", " ", "o", "n", "l", "y">>,
       <<"a", "n", "s", "w", "e", "r", " ", "y", "e", "s", " ", "o", "r", " ", "n", "o">>,
       <<"y", "e", "s", " ", "o", "r", " ", "n", "o", " ", "o", "n", "l", "y">>,
       <<"y", "e", "s", " ", "o", "r", " ", "n", "o">> >>

(***************************************************************************)
(* Python string primitives on sequences of characters.                    *)
(***************************************************************************)
NoneS == <<"NONE">>

NoneV == <<"none", 0>>

PyInt(n) == <<"int", n>>

PyStr(n) == <<"str", n>>

Truthy(s) == s # NoneS /\ s # <<>>

Or(a, b) == IF Truthy(a) THEN a ELSE b

LowerCh(c) == IF c \in DOMAIN upper_to_lower THEN upper_to_lower[c] ELSE c

UpperCh(c) == IF c \in DOMAIN lower_to_upper THEN lower_to_upper[c] ELSE c

Lower(s) == [i \in 1..Len(s) |-> LowerCh(s[i])]

Upper(s) == [i \in 1..Len(s) |-> UpperCh(s[i])]

IsSpace(c) == c \in {" ", "\n", "\t"}

RECURSIVE LStrip(_)
LStrip(s) == IF s # <<>> /\ IsSpace(Head(s)) THEN LStrip(Tail(s)) ELSE s

RECURSIVE RStrip(_)
RStrip(s) ==
    IF s # <<>> /\ IsSpace(s[Len(s)]) THEN RStrip(SubSeq(s, 1, Len(s) - 1)) ELSE s

Strip(s) == RStrip(LStrip(s))

IsSubstr(w, t) ==
    \E i \in 1..(Len(t) - Len(w) + 1) : SubSeq(t, i, i + Len(w) - 1) = w

EndsWith(t, w) ==
    Len(w) <= Len(t) /\ SubSeq(t, Len(t) - Len(w) + 1, Len(t)) = w

AnyIn(words, t) == \E k \in 1..Len(words) : IsSubstr(words[k], t)

\* re.compile(re.escape(phrase), re.IGNORECASE).sub('', s): every
\* non-overlapping occurrence, leftmost first, is removed.
RECURSIVE RegexRemove(_, _)
RegexRemove(s, phrase) ==
    IF s = <<>> THEN <<>>
    ELSE IF Len(phrase) <= Len(s) /\ Lower(SubSeq(s, 1, Len(phrase))) = phrase
         THEN RegexRemove(SubSeq(s, Len(phrase) + 1, Len(s)), phrase)
         ELSE <<Head(s)>> \o RegexRemove(Tail(s), phrase)

\* re.sub(r'\s+', ' ', s)
RECURSIVE CollapseSpaces(_)
CollapseSpaces(s) ==
    IF s = <<>> THEN <<>>
    ELSE IF IsSpace(Head(s))
         THEN <<" ">> \o CollapseSpaces(LStrip(s))
         ELSE <<Head(s)>> \o CollapseSpaces(Tail(s))

DropLast(s) == SubSeq(s, 1, Len(s) - 1)

(***************************************************************************)
(* Answer classifier of the voice-agent channel.                           *)
(***************************************************************************)
extract_answer_no_first(text) ==
    IF ~Truthy(text) THEN "None"
    ELSE LET text_lower == Strip(Lower(text))
         IN  IF AnyIn(no_keywords, text_lower) THEN "no"
             ELSE IF AnyIn(yes_keywords, text_lower) THEN "yes"
             ELSE "unclear"

extract_answer(text) ==
    IF ~Truthy(text) THEN "None"
    ELSE LET text_lower == Strip(Lower(text))
         IN  IF AnyIn(yes_keywords, text_lower) THEN "yes"
             ELSE IF AnyIn(no_keywords, text_lower) THEN "no"
             ELSE "unclear"

\* One iteration of the loop over phrases_to_remove.
clean_phrase(cleaned_question, phrase) ==
    IF EndsWith(Lower(cleaned_question), phrase)
    THEN LET cut == Strip(SubSeq(cleaned_question, 1,
                                 Len(cleaned_question) - Len(phrase)))
         IN  IF cut # <<>> /\ cut[Len(cut)] \in {".", ","}
             THEN Strip(DropLast(cut))
             ELSE cut
    ELSE IF IsSubstr(phrase, Lower(cleaned_question))
    THEN LET sub == Strip(CollapseSpaces(Strip(RegexRemove(cleaned_question, phrase))))
         IN  IF sub # <<>> /\ sub[Len(sub)] \in {".", ","}
             THEN Strip(DropLast(sub))
             ELSE sub
    ELSE cleaned_question

RECURSIVE clean_loop(_, _)
clean_loop(cleaned_question, k) ==
    IF k > Len(phrases_to_remove) THEN cleaned_question
    ELSE clean_loop(clean_phrase(cleaned_question, phrases_to_remove[k]), k + 1)

clean_question(question_text) ==
    IF ~Truthy(question_text) THEN question_text
    ELSE clean_loop(Strip(question_text), 1)

(***************************************************************************)
(* Transcript segmenter.  A message is [kind, d, s]: a dict d (field name  *)
(* to text or NoneS), a bare string s, or a value of another type.         *)
(***************************************************************************)
EmptyDict == [k \in {} |-> NoneS]

Dict(d) == [kind |-> "dict", d |-> d, s |-> NoneS]

BareStr(s) == [kind |-> "str", d |-> EmptyDict, s |-> s]

OtherMsg == [kind |-> "other", d |-> EmptyDict, s |-> NoneS]

Get(d, k, default) == IF k \in DOMAIN d THEN d[k] ELSE default

S_agent == <<"a", "g", "e", "n", "t">>

S_user == <<"u", "s", "e", "r">>

S_unknown == <<"u", "n", "k", "n", "o", "w", "n">>

S_yes_or_no == <<"y", "e", "s", " ", "o", "r", " ", "n", "o">>

msg_role(msg, default) ==
    IF msg.kind = "str" THEN S_user
    ELSE Get(msg.d, "role", Get(msg.d, "speaker", default))

msg_text(msg) ==
    IF msg.kind = "str" THEN msg.s
    ELSE Get(msg.d, "message", Get(msg.d, "text", Get(msg.d, "content", <<>>)))

is_survey_question_unfiltered(message_text) ==
    \/ "?" \in {message_text[i] : i \in 1..Len(message_text)}
    \/ IsSubstr(S_yes_or_no, Strip(Lower(message_text)))

\* The test that makes an agent turn a survey question.
is_survey_question(message_text) ==
    LET message_lower == Strip(Lower(message_text))
        is_confirmation == AnyIn(confirmation_phrases, message_lower)
        is_greeting == AnyIn(greeting_phrases, message_lower)
    IN  /\ ("?" \in {message_text[i] : i \in 1..Len(message_text)}
            \/ IsSubstr(S_yes_or_no, message_lower))
        /\ ~is_confirmation
        /\ ~is_greeting

SegInit ==
    [question_num |-> 0, current_question |-> NoneS,
     questions_and_answers |-> <<>>, raised |-> FALSE]

QAPair(n, q, a, raw) ==
    [question_number |-> n, question |-> q, answer |-> a, raw_answer |-> raw]

keep_current_question(st) == st

\* Resetting current_question after an answer has been appended.
reset_current_question(st) == [st EXCEPT !.current_question = NoneS]

\* Loop body of the post_call_transcription branch of handle_webhook.
seg_turn_webhook(st, msg) ==
    IF st.raised \/ msg.kind = "other" THEN st
    ELSE IF msg_text(msg) = NoneS THEN [st EXCEPT !.raised = TRUE]
    ELSE LET role == msg_role(msg, <<>>)
             message_text == Strip(msg_text(msg))
         IN  IF role = S_agent /\ Truthy(message_text)
             THEN IF is_survey_question(message_text)
                  THEN [st EXCEPT !.current_question = clean_question(message_text),
                                  !.question_num = @ + 1]
                  ELSE st
             ELSE IF role = S_user /\ Truthy(message_text)
                                    /\ Truthy(st.current_question)
             THEN LET answer == extract_answer(message_text)
                  IN  IF answer # "None"
                      THEN reset_current_question(
                             [st EXCEPT !.questions_and_answers =
                                 Append(@, QAPair(st.question_num,
                                                  st.current_question,
                                                  answer, message_text))])
                      ELSE st
             ELSE st

\* Loop body of test_log_extraction and of extract_qa_from_log.
seg_turn_log(st, msg) ==
    IF st.raised \/ msg.kind = "other" THEN st
    ELSE LET role == msg_role(msg, S_unknown)
             message_text == msg_text(msg)
         IN  IF ~Truthy(message_text) THEN st
             ELSE IF role = NoneS THEN [st EXCEPT !.raised = TRUE]
             ELSE IF role = S_agent
             THEN IF is_survey_question(message_text)
                  THEN [st EXCEPT !.current_question =
                                      clean_loop(Strip(message_text), 1),
                                  !.question_num = @ + 1]
                  ELSE st
             ELSE IF role = S_user /\ Truthy(st.current_question)
             THEN reset_current_question(
                    [st EXCEPT !.questions_and_answers =
                        Append(@, QAPair(st.question_num, st.current_question,
                                         extract_answer(message_text),
                                         Strip(message_text)))])
             ELSE st

seg_turn(impl, st, msg) ==
    IF impl = "webhook" THEN seg_turn_webhook(st, msg) ELSE seg_turn_log(st, msg)

RECURSIVE segment_from(_, _, _, _)
segment_from(impl, st, messages, i) ==
    IF i > Len(messages) THEN st
    ELSE segment_from(impl, seg_turn(impl, st, messages[i]), messages, i + 1)

segment(impl, messages) == segment_from(impl, SegInit, messages, 1)

(***************************************************************************)
(* Input texts.                                                            *)
(***************************************************************************)
\* "Hello, how can I help?"
T_greeting ==
    <<"H", "e", "l", "l", "o", ",", " ", "h", "o", "w", " ", "c", "a", "n", " ", "I", " ", "h", "e", "l", "p", "?">>

\* "Do you have insurance? Yes or no."
T_q_insurance ==
    <<"D", "o", " ", "y", "o", "u", " ", "h", "a", "v", "e", " ", "i", "n", "s", "u", "r", "a", "n", "c", "e", "?", " ", "Y", "e", "s", " ", "o", "r", " ", "n", "o", ".">>

\* "Is that correct?"
T_confirmation ==
    <<"I", "s", " ", "t", "h", "a", "t", " ", "c", "o", "r", "r", "e", "c", "t", "?">>

\* "Are you on medication?"
T_q_medication ==
    <<"A", "r", "e", " ", "y", "o", "u", " ", "o", "n", " ", "m", "e", "d", "i", "c", "a", "t", "i", "o", "n", "?">>

\* "yes"
T_yes ==
    <<"y", "e", "s">>

\* "no"
T_no ==
    <<"n", "o">>

\* "maybe"
T_maybe ==
    <<"m", "a", "y", "b", "e">>

AgentTurn(t) == Dict(("role" :> S_agent) @@ ("message" :> t))

UserTurn(t) == Dict(("role" :> S_user) @@ ("message" :> t))

\* The turns transcripts are built from: greeting, questions, confirmation,
\* answers, a turn under the field synonyms and a bare-string turn.
Turns ==
    { AgentTurn(T_greeting), AgentTurn(T_q_insurance), AgentTurn(T_confirmation),
      Dict(("speaker" :> S_agent) @@ ("text" :> T_q_medication)),
      UserTurn(T_yes), UserTurn(T_no), BareStr(T_maybe) }

\* Turns of an unrecognised shape: the text is null, the role is null.
S_MalformedTurn == Dict(("role" :> S_agent) @@ ("message" :> NoneS))

S_NullRoleTurn == Dict(("role" :> NoneS) @@ ("message" :> T_yes))

MalformedTurns == { S_MalformedTurn, S_NullRoleTurn }

\* The transcripts of one or two turns that hold a turn of an unrecognised
\* shape, alone or next to a question or an answer.
MalformedTranscripts ==
    LET ts == MalformedTurns \cup { AgentTurn(T_q_insurance), UserTurn(T_yes) }
    IN  { t \in [1..1 -> ts] \cup [1..2 -> ts] :
            \E i \in DOMAIN t : t[i] \in MalformedTurns }

\* The turn sequence of the segmentation example.
ExampleTranscript ==
    << AgentTurn(T_greeting), AgentTurn(T_q_insurance), UserTurn(T_yes),
       AgentTurn(T_confirmation), UserTurn(T_yes),
       AgentTurn(T_q_medication), UserTurn(T_no) >>

(***************************************************************************)
(* Bounds of the model.                                                    *)
(***************************************************************************)
MaxTurns == 3

MaxCalls == 1

MaxQ == 2

MaxWords == 2

NumTempIds == 2

Transcripts ==
    UNION { [1..n -> Turns] : n \in 0..MaxTurns } \cup { ExampleTranscript }
        \cup MalformedTranscripts

\* random.randint(10000, 99999): the fallback ids, of which the model
\* draws the first NumTempIds.
TempIdLow == 10000

TempIds == TempIdLow..(TempIdLow + NumTempIds - 1)

QText(k) == <<"Q", "u", "e", "s", "t", "i", "o", "n">> \o <<k>>

QNames == <<"a", "b", "c", "d", "e">>

\* Question lists a client submits: Question a, Question b, ... of every
\* length up to MaxQ, the same with an empty text in front, and no question.
QuestionLists ==
    { [k \in 1..n |-> QText(QNames[k])] : n \in 0..MaxQ }
    \cup { [k \in 1..n |-> IF k = 1 THEN <<>> ELSE QText(QNames[k - 1])] : n \in 2..MaxQ }

PhoneNumbers == { <<>>, <<"1", "5">>, <<"+", "1", "5">> }

\* q_num values a process-answer request may carry: the slots and one past.
QNums == 0..MaxQ

\* What an answer event carries: SpeechResult, Digits, Confidence.
Conf(tag, hundredths) == <<tag, hundredths>>

NoConf == Conf("none", 0)

AnswerEvent(speech, digits, confidence) ==
    [speech |-> speech, digits |-> digits, confidence |-> confidence]

\* Answer events of the call flow: spoken yes, spoken no with a provider
\* confidence, no input at all, a confidence that is no number, and a
\* Confidence field of "1.5".
AnswerEvents ==
    { AnswerEvent(T_yes, NoneS, NoConf),
      AnswerEvent(T_no, NoneS, Conf("num", 50)),
      AnswerEvent(NoneS, NoneS, NoConf),
      AnswerEvent(T_yes, NoneS, Conf("bad", 0)),
      AnswerEvent(T_no, NoneS, Conf("num", 150)) }

\* CallStatus values the provider reports; the route takes the form field as
\* it comes.
ProviderStatuses == { "in-progress", "failed", "busy" }

VARIABLES
    db_up,          \* the datastore answers (FALSE: every gateway call raises)
    calls,          \* table calls: row k has id k
    questions,      \* table questions
    vh_cache,       \* VoiceHandler.questions_cache
    line,           \* the provider's side of each dialed call
    answered,       \* per dialed call, its latest answer event
    el_cache,       \* ElevenLabsHandler.questions_cache
    agent,          \* the voice-agent backend's side of each dispatched call
    seg_impl, seg_messages, seg_i, seg_state,
    cls_in,         \* the answer event handed to the classifiers
    cls_out,        \* what the classifiers returned for it
    threads,        \* the agent webhooks being handled, one per worker thread
    base,           \* the tables when the first of them was taken up
    scan,           \* a webhook's walk over the items of el_cache
    last            \* the response to the latest start request or agent webhook

db_vars == <<db_up, calls, questions>>

ivr_vars == <<vh_cache, line, answered>>

seg_vars == <<seg_impl, seg_messages, seg_i, seg_state>>

el_vars == <<el_cache, agent>>

cls_vars == <<cls_in, cls_out>>

race_vars == <<threads, base, scan>>

vars == <<db_vars, ivr_vars, el_vars, seg_vars, cls_vars, race_vars, last>>

(***************************************************************************)
(* Durable store (database.py).                                            *)
(***************************************************************************)
CallRow(phone_number, questions_json) ==
    [phone_number |-> phone_number, call_sid |-> NoneV, status |-> "initiated",
     questions_json |-> questions_json, started_at |-> "NULL", ended_at |-> "NULL"]

QuestionRow(call_id, question_text, question_number) ==
    [call_id |-> call_id, question_number |-> question_number,
     question_text |-> question_text, response |-> "NULL",
     response_confidence |-> -1, raw_response |-> NoneS]

\* INSERT INTO calls ... OUTPUT INSERTED.id
create_call(tbl, phone_number, questions_json) ==
    Append(tbl, CallRow(phone_number, questions_json))

\* The update without its call_sid column: the status alone is written.
update_call_sid_status_only(tbl, call_id, call_sid) ==
    [k \in DOMAIN tbl |->
        IF k = call_id
        THEN [tbl[k] EXCEPT !.status = "ringing", !.started_at = "update_call_sid"]
        ELSE tbl[k]]

\* UPDATE calls SET call_sid, status = 'ringing', started_at WHERE id
update_call_sid(tbl, call_id, call_sid) ==
    [k \in DOMAIN tbl |->
        IF k = call_id
        THEN [tbl[k] EXCEPT !.call_sid = call_sid, !.status = "ringing",
                            !.started_at = "update_call_sid"]
        ELSE tbl[k]]

\* UPDATE calls SET status WHERE call_sid
update_call_status(tbl, call_sid, status) ==
    [k \in DOMAIN tbl |->
        IF tbl[k].call_sid = call_sid THEN [tbl[k] EXCEPT !.status = status]
        ELSE tbl[k]]

\* UPDATE calls SET status = 'completed', ended_at, duration WHERE id
complete_call(tbl, call_id) ==
    [k \in DOMAIN tbl |->
        IF k = call_id
        THEN [tbl[k] EXCEPT !.status = "completed", !.ended_at = "complete_call"]
        ELSE tbl[k]]

\* INSERT INTO questions: one row per list entry, in order.
RECURSIVE save_questions(_, _, _, _)
save_questions(tbl, call_id, qs, idx) ==
    IF idx >= Len(qs) THEN tbl
    ELSE save_questions(Append(tbl, QuestionRow(call_id, qs[idx + 1], idx)),
                        call_id, qs, idx + 1)

\* UPDATE questions SET response, ... WHERE call_id AND question_number
save_answer(tbl, call_id, question_num, answer, confidence, raw_response) ==
    [k \in DOMAIN tbl |->
        IF tbl[k].call_id = call_id /\ tbl[k].question_number = question_num
        THEN [tbl[k] EXCEPT !.response = answer,
                            !.response_confidence = confidence,
                            !.raw_response = raw_response]
        ELSE tbl[k]]

\* SELECT ... FROM questions WHERE call_id ORDER BY question_number
AnswerRecords(call_id, k) ==
    { r \in DOMAIN questions :
        questions[r].call_id = call_id /\ questions[r].question_number = k }

(***************************************************************************)
(* Twilio IVR channel (voice_handler.py and its routes in app.py).         *)
(***************************************************************************)
S_timeout == <<"t", "i", "m", "e", "o", "u", "t">>

\* float(confidence) if confidence else 0.9; float() raises on text that
\* is no number.
answer_confidence(confidence) ==
    IF confidence[1] = "none" THEN 90 ELSE confidence[2]

float_raises(confidence) == confidence[1] = "bad"

next_question_skipping(question_num) == question_num + 2

\* Pointer move of process_answer: next_question = question_num + 1
next_question(question_num) == question_num + 1

digit_answer_swapped(digits) ==
    IF digits = <<"1">>
    THEN [answer |-> "no", confidence |-> 100, raised |-> FALSE]
    ELSE IF digits = <<"2">>
    THEN [answer |-> "yes", confidence |-> 100, raised |-> FALSE]
    ELSE [answer |-> "unclear", confidence |-> 30, raised |-> FALSE]

\* Keypad input: 1 is yes, 2 is no, anything else is unclear.
digit_answer(digits) ==
    IF digits = <<"1">>
    THEN [answer |-> "yes", confidence |-> 100, raised |-> FALSE]
    ELSE IF digits = <<"2">>
    THEN [answer |-> "no", confidence |-> 100, raised |-> FALSE]
    ELSE [answer |-> "unclear", confidence |-> 30, raised |-> FALSE]

\* No classifier has run on cls_in yet.
NotClassified == [ivr |-> "pending", confidence |-> -1, agent |-> "pending"]

\* The answer and confidence process_answer determines for an answer event.
classify_answer(ev) ==
    IF Truthy(ev.speech) /\ Truthy(Strip(ev.speech))
    THEN LET speech_lower == Strip(Lower(ev.speech))
         IN  IF AnyIn(yes_keywords, speech_lower)
             THEN [answer |-> "yes",
                   confidence |-> answer_confidence(ev.confidence),
                   raised |-> float_raises(ev.confidence)]
             ELSE IF AnyIn(no_keywords, speech_lower)
             THEN [answer |-> "no",
                   confidence |-> answer_confidence(ev.confidence),
                   raised |-> float_raises(ev.confidence)]
             ELSE [answer |-> "unclear", confidence |-> 30, raised |-> FALSE]
    ELSE IF Truthy(ev.digits) /\ Truthy(Strip(ev.digits))
    THEN digit_answer(ev.digits)
    ELSE [answer |-> "timeout", confidence |-> 0, raised |-> FALSE]

\* Lookup of a call's questions in the cache: string key, then int key.
cached_questions(cache, call_id) ==
    IF PyStr(call_id) \in DOMAIN cache /\ cache[PyStr(call_id)] # <<>>
    THEN cache[PyStr(call_id)]
    ELSE IF PyInt(call_id) \in DOMAIN cache THEN cache[PyInt(call_id)]
    ELSE <<>>

HasText(t) == Truthy(Strip(t))

valid_questions(qs) == SelectSeq(qs, HasText)

Put(cache, key, value) ==
    [k \in DOMAIN cache \cup {key} |-> IF k = key THEN value ELSE cache[k]]

Del(cache, key) == [k \in DOMAIN cache \ {key} |-> cache[k]]

\* Completion cleanup of handle_voice_flow: del questions_cache[call_id],
\* call_id being the string of the request.
cleanup_cache(cache, call_id) == Del(cache, PyStr(call_id))

\* The provider's side of a dialed call: the document it is executing
\* (pc), the q_num of that document, how the q_num was last moved (via), and
\* the number of questions submitted for the call (n).
Line(call_id, call_sid, pc, n) ==
    [call_id |-> call_id, call_sid |-> call_sid, pc |-> pc, q_num |-> 0,
     via |-> "start", n |-> n]

NoAnswer ==
    [q |-> -1, answer |-> "None", saved |-> FALSE, genuine |-> FALSE,
     twice |-> "no"]

\* GET /api/call-results/<call_id>: the answer of slot k as the results
\* document reports it; the document is built from the datastore only.
get_call_results(call_id, k) ==
    IF ~db_up THEN "unavailable"
    ELSE IF AnswerRecords(call_id, k) = {} THEN "missing"
    ELSE questions[CHOOSE r \in AnswerRecords(call_id, k) : TRUE].response

\* The response to a request: its route, its HTTP status, and the id of the
\* call the request was about (0 for none).
Response(route, code, call_id) ==
    [route |-> route, code |-> code, call_id |-> call_id]

NoResponse == Response("none", 0, 0)

start_rejected_lenient(phone_number, qs) ==
    \/ ~Truthy(phone_number)
    \/ qs = <<>>

\* The validation both start routes run first: phone_number given,
\* questions given, phone_number starting with "+".
start_rejected(phone_number, qs) ==
    \/ ~Truthy(phone_number)
    \/ qs = <<>>
    \/ Head(phone_number) # "+"

\* The fallback id is drawn only when create_call has failed: requests that
\* differ in an id that is not drawn are one request.
StartInputs(phone_number, qs, temp_id) ==
    (start_rejected(phone_number, qs) \/ db_up) => temp_id = TempIdLow

\* POST /api/initiate-call: 400 for a request that fails validation, 500
\* when the provider does not take the call, else 200.
InitiateCall(limit, phone_number, qs, dispatch_ok, temp_id) ==
    IF start_rejected(phone_number, qs)
    THEN /\ last' = Response("initiate-call", 400, 0)
         /\ UNCHANGED <<db_vars, ivr_vars, el_vars, seg_vars, cls_vars, race_vars>>
    ELSE /\ Len(line) < limit
         /\ LET call_id == IF db_up THEN Len(calls) + 1 ELSE temp_id
                created == IF db_up THEN create_call(calls, phone_number, qs)
                                    ELSE calls
                call_sid == <<"sid", Len(line) + 1>>
            IN  /\ vh_cache' = Put(Put(vh_cache, PyStr(call_id), qs),
                                   PyInt(call_id), qs)
                /\ questions' = IF db_up
                                THEN save_questions(questions, call_id, qs, 0)
                                ELSE questions
                /\ calls' = IF db_up /\ dispatch_ok
                            THEN update_call_sid(created, call_id, call_sid)
                            ELSE created
                /\ line' = Append(line,
                                  IF dispatch_ok
                                  THEN Line(call_id, call_sid, "flow", Len(qs))
                                  ELSE Line(call_id, NoneV, "undialed", Len(qs)))
                /\ answered' = Append(answered, NoAnswer)
                /\ last' = Response("initiate-call",
                                    IF dispatch_ok THEN 200 ELSE 500, call_id)
         /\ UNCHANGED <<db_up, el_vars, seg_vars, cls_vars, race_vars>>

\* handle_voice_flow with the failure of complete_call leaving the handler:
\* the caller hears the apology of the outer except instead of the thank-you.
handle_voice_flow_aborting(cache, tbl, up, call_id, current_question) ==
    LET cached == cached_questions(cache, call_id)
        from_db == /\ cached = <<>>
                   /\ up
                   /\ call_id \in DOMAIN tbl
        qs == IF cached # <<>> THEN cached
              ELSE IF from_db THEN tbl[call_id].questions_json
              ELSE <<>>
        cache1 == IF from_db THEN Put(cache, PyStr(call_id), qs) ELSE cache
        valid == valid_questions(qs)
    IN  IF valid = <<>>
        THEN [twiml |-> [verb |-> "hangup", say |-> "no questions",
                         greeting |-> FALSE, text |-> <<>>,
                         action_q |-> -1, redirect_q |-> -1],
              cache |-> cache1, calls |-> tbl]
        ELSE IF current_question < Len(valid)
        THEN [twiml |-> [verb |-> "gather", say |-> "question",
                         greeting |-> (current_question = 0),
                         text |-> valid[current_question + 1],
                         action_q |-> current_question,
                         redirect_q |-> current_question + 1],
              cache |-> cache1, calls |-> tbl]
        ELSE IF ~up
        THEN [twiml |-> [verb |-> "hangup", say |-> "error",
                         greeting |-> FALSE, text |-> <<>>,
                         action_q |-> -1, redirect_q |-> -1],
              cache |-> cache1, calls |-> tbl]
        ELSE [twiml |-> [verb |-> "hangup", say |-> "thank you",
                         greeting |-> (current_question = 0), text |-> <<>>,
                         action_q |-> -1, redirect_q |-> -1],
              cache |-> cleanup_cache(cache1, call_id),
              calls |-> complete_call(tbl, call_id)]

\* handle_voice_flow(call_id, current_question): the TwiML it returns and
\* the cache and the table calls it leaves.  The document is a hangup with
\* an apology when no valid question is found, else the question numbered
\* current_question + 1 inside a Gather whose action is process-answer with
\* q_num = current_question, followed by a Redirect to voice-flow with
\* q_num = current_question + 1, else the thank-you and a hangup.
handle_voice_flow(cache, tbl, up, call_id, current_question) ==
    LET cached == cached_questions(cache, call_id)
        from_db == /\ cached = <<>>
                   /\ up
                   /\ call_id \in DOMAIN tbl
        qs == IF cached # <<>> THEN cached
              ELSE IF from_db THEN tbl[call_id].questions_json
              ELSE <<>>
        cache1 == IF from_db THEN Put(cache, PyStr(call_id), qs) ELSE cache
        valid == valid_questions(qs)
    IN  IF valid = <<>>
        THEN [twiml |-> [verb |-> "hangup", say |-> "no questions",
                         greeting |-> FALSE, text |-> <<>>,
                         action_q |-> -1, redirect_q |-> -1],
              cache |-> cache1, calls |-> tbl]
        ELSE IF current_question < Len(valid)
        THEN [twiml |-> [verb |-> "gather", say |-> "question",
                         greeting |-> (current_question = 0),
                         text |-> valid[current_question + 1],
                         action_q |-> current_question,
                         redirect_q |-> current_question + 1],
              cache |-> cache1, calls |-> tbl]
        ELSE [twiml |-> [verb |-> "hangup", say |-> "thank you",
                         greeting |-> (current_question = 0), text |-> <<>>,
                         action_q |-> -1, redirect_q |-> -1],
              cache |-> cleanup_cache(cache1, call_id),
              calls |-> IF up THEN complete_call(tbl, call_id) ELSE tbl]

\* POST /api/voice-flow?call_id=..&q_num=..: the provider requests the
\* document for the q_num it holds and starts executing it.
VoiceFlow(i) ==
    /\ i \in DOMAIN line
    /\ line[i].pc \in {"flow", "gather", "done"}
    /\ LET r == handle_voice_flow(vh_cache, calls, db_up, line[i].call_id,
                                  line[i].q_num)
       IN  /\ vh_cache' = r.cache
           /\ calls' = r.calls
           /\ line' = [line EXCEPT ![i].pc = IF r.twiml.verb = "gather"
                                             THEN "gather" ELSE "done"]
    /\ UNCHANGED <<db_up, questions, answered, el_vars, seg_vars, cls_vars, race_vars, last>>

\* process_answer(call_id, question_num, ...): the TwiML it returns (the
\* feedback said for the answer, or the apology of the outer except, and
\* the Redirect to voice-flow) and the table questions it leaves.
process_answer(tbl, up, call_id, question_num, ev) ==
    LET c == classify_answer(ev)
        raw_response == Or(ev.speech, Or(ev.digits, S_timeout))
    IN  [twiml |-> [say |-> IF c.raised THEN "error" ELSE c.answer,
                    redirect_q |-> next_question(question_num)],
         questions |-> IF up /\ ~c.raised
                       THEN save_answer(tbl, call_id, question_num, c.answer,
                                        c.confidence, raw_response)
                       ELSE tbl]

\* POST /api/process-answer?call_id=..&q_num=..  (process_answer).  The
\* request is the action of the Gather of question q_num, or a redelivery
\* of such a request: the route accepts every q_num.
ProcessAnswer(i, question_num, ev) ==
    /\ i \in DOMAIN line
    /\ line[i].pc \in {"flow", "gather"}
    /\ LET call_id == line[i].call_id
           c == classify_answer(ev)
           saved == db_up /\ ~c.raised
           genuine == line[i].pc = "gather" /\ line[i].q_num = question_num
           repeat == /\ answered[i].q = question_num
                     /\ answered[i].genuine
                     /\ answered[i].saved
                     /\ saved
           p == process_answer(questions, db_up, call_id, question_num, ev)
       IN  /\ questions' = p.questions
           /\ line' = [line EXCEPT ![i].pc = "flow",
                                   ![i].q_num = p.twiml.redirect_q,
                                   ![i].via = "answer"]
           /\ answered' = [answered EXCEPT ![i] =
                              [q |-> question_num, answer |-> c.answer,
                               saved |-> saved, genuine |-> genuine,
                               twice |-> IF ~repeat THEN "no"
                                         ELSE IF answered[i].answer = c.answer
                                         THEN "same" ELSE "changed"]]
    /\ UNCHANGED <<db_up, calls, vh_cache, el_vars, seg_vars, cls_vars, race_vars, last>>

\* The Gather of the asked question ends without input: the provider runs
\* the verbs after it, Say and Redirect to voice-flow with q_num + 1.
GatherTimeout(i) ==
    /\ i \in DOMAIN line
    /\ line[i].pc = "gather"
    /\ line' = [line EXCEPT ![i].pc = "flow", ![i].q_num = @ + 1,
                            ![i].via = "timeout"]
    /\ UNCHANGED <<db_vars, vh_cache, answered, el_vars, seg_vars, cls_vars, race_vars, last>>

\* POST /api/call-status
CallStatus(i, call_status) ==
    /\ i \in DOMAIN line
    /\ line[i].pc # "undialed"
    /\ db_up
    /\ calls' = update_call_status(calls, line[i].call_sid, call_status)
    /\ UNCHANGED <<db_up, questions, ivr_vars, el_vars, seg_vars, cls_vars, race_vars, last>>

\* The datastore becomes unreachable, or reachable again.
DbFail ==
    /\ db_up
    /\ db_up' = FALSE
    /\ UNCHANGED <<calls, questions, ivr_vars, el_vars, seg_vars, cls_vars, race_vars, last>>

DbRestore ==
    /\ ~db_up
    /\ db_up' = TRUE
    /\ UNCHANGED <<calls, questions, ivr_vars, el_vars, seg_vars, cls_vars, race_vars, last>>

\* The process restarts: the in-memory caches are empty again.
Restart ==
    /\ vh_cache # <<>> \/ el_cache # <<>>
    /\ vh_cache' = <<>>
    /\ el_cache' = <<>>
    /\ UNCHANGED <<db_vars, line, answered, agent, seg_vars, cls_vars, race_vars, last>>

\* The worker threads of the server that handle agent webhooks.
Threads == {1, 2}

\* The tables calls and questions.
Tables(c, q) == [calls |-> c, questions |-> q]

\* A worker thread and the locals of the webhook it is handling.
Thread(pc, event_type, db_call_id, messages) ==
    [pc |-> pc, event_type |-> event_type, db_call_id |-> db_call_id,
     messages |-> messages, pairs |-> <<>>, k |-> 1, call_sid |-> NoneV,
     existing |-> {}]

IdleThread == Thread("idle", "none", 0, <<>>)

\* The iterator of "for key, value in self.questions_cache.items()": the
\* conversation id looked for, the size of the dictionary when the iterator
\* was made, the keys already yielded, and the call id found.
Scan(pc, conversation_id, used, seen, call_id) ==
    [pc |-> pc, conversation_id |-> conversation_id, used |-> used,
     seen |-> seen, call_id |-> call_id]

IdleScan == Scan("idle", NoneV, 0, {}, NoneV)

InitData ==
    /\ calls = <<>>
    /\ questions = <<>>
    /\ vh_cache = <<>>
    /\ line = <<>>
    /\ answered = <<>>
    /\ el_cache = <<>>
    /\ agent = <<>>
    /\ cls_in = AnswerEvent(NoneS, NoneS, NoConf)
    /\ cls_out = NotClassified
    /\ threads = [t \in Threads |-> IdleThread]
    /\ base = Tables(<<>>, <<>>)
    /\ scan = IdleScan
    /\ last = NoResponse

SegIdle ==
    /\ seg_impl = "webhook"
    /\ seg_messages = <<>>
    /\ seg_i = 0
    /\ seg_state = SegInit

InitIVR ==
    /\ db_up = TRUE
    /\ InitData
    /\ SegIdle

\* Start requests that fail validation are left to the specification of
\* the start routes.
NextIVR ==
    \/ \E p \in PhoneNumbers, qs \in QuestionLists, ok \in BOOLEAN, t \in TempIds :
          /\ StartInputs(p, qs, t)
          /\ ~start_rejected(p, qs)
          /\ InitiateCall(MaxCalls, p, qs, ok, t)
    \/ \E i \in 1..MaxCalls : VoiceFlow(i)
    \/ \E i \in 1..MaxCalls, q \in QNums, ev \in AnswerEvents : ProcessAnswer(i, q, ev)
    \/ \E i \in 1..MaxCalls : GatherTimeout(i)
    \/ \E i \in 1..MaxCalls, s \in ProviderStatuses : CallStatus(i, s)
    \/ DbFail
    \/ DbRestore
    \/ Restart

SpecIVR == InitIVR /\ [][NextIVR]_vars

(***************************************************************************)
(* The IVR channel with a provider that follows every document it is       *)
(* given and redelivers nothing: it requests voice-flow where a Redirect   *)
(* sends it, and at a Gather it posts the caller's answer for the question *)
(* asked or, on no input, runs the verbs after the Gather.                 *)
(***************************************************************************)
ProviderFollows(i) ==
    \/ /\ i \in DOMAIN line
       /\ line[i].pc = "flow"
       /\ VoiceFlow(i)
    \/ GatherTimeout(i)
    \/ \E ev \in AnswerEvents :
          /\ i \in DOMAIN line
          /\ line[i].pc = "gather"
          /\ ProcessAnswer(i, line[i].q_num, ev)

NextLive ==
    \/ \E p \in PhoneNumbers, qs \in QuestionLists, ok \in BOOLEAN, t \in TempIds :
          /\ StartInputs(p, qs, t)
          /\ ~start_rejected(p, qs)
          /\ InitiateCall(MaxCalls, p, qs, ok, t)
    \/ \E i \in 1..MaxCalls : ProviderFollows(i)
    \/ DbFail
    \/ DbRestore
    \/ Restart

\* The provider does not stop in the middle of a call.
SpecLive ==
    /\ InitIVR
    /\ [][NextLive]_vars
    /\ \A i \in 1..MaxCalls : WF_vars(ProviderFollows(i))

(***************************************************************************)
(* The segmenter run turn by turn over a transcript.                       *)
(***************************************************************************)
InitSeg ==
    /\ db_up = TRUE
    /\ InitData
    /\ seg_impl \in {"webhook", "log"}
    /\ seg_messages \in Transcripts
    /\ seg_i = 0
    /\ seg_state = SegInit

\* The segmenter consumes the next turn of the transcript.
SegStep ==
    /\ seg_i < Len(seg_messages)
    /\ seg_i' = seg_i + 1
    /\ seg_state' = seg_turn(seg_impl, seg_state, seg_messages[seg_i + 1])
    /\ UNCHANGED <<seg_impl, seg_messages, db_vars, ivr_vars, el_vars, cls_vars,
                   race_vars, last>>

NextSeg == SegStep

SpecSeg == InitSeg /\ [][NextSeg]_vars

(***************************************************************************)
(* The answer classifiers applied to one answer event.                     *)
(***************************************************************************)
W_yes == <<"y", "e", "s">>

W_no == <<"n", "o">>

W_Yeah == <<"Y", "e", "a", "h">>

W_nope == <<"n", "o", "p", "e">>

W_know == <<"k", "n", "o", "w">>

W_maybe == <<"m", "a", "y", "b", "e">>

W_OK == <<"O", "K">>

W_wrong == <<"w", "r", "o", "n", "g">>

\* Words of a caller's reply: the keywords yes and no, keywords in another
\* case, words that hold a keyword inside ("know" holds "no"), and words
\* that hold none.
Words == { W_yes, W_no, W_Yeah, W_nope, W_know, W_maybe, W_OK, W_wrong }

RECURSIVE Join(_)
Join(ws) ==
    IF ws = <<>> THEN <<>>
    ELSE IF Len(ws) = 1 THEN ws[1]
    ELSE ws[1] \o <<" ">> \o Join(Tail(ws))

\* SpeechResult values: absent, the replies of up to MaxWords words (the
\* empty string among them), blank strings, and a reply with blanks around.
SpeechInputs ==
    { NoneS, <<" ">>, <<" ", "\t", " ">>, <<" ">> \o W_yes \o <<" ">> }
    \cup { Join(ws) : ws \in UNION { [1..n -> Words] : n \in 0..MaxWords } }

\* Digits values: absent, empty, blank, and keys of the keypad.
DigitInputs == { NoneS, <<>>, <<" ">>, <<"1">>, <<"2">>, <<"5">>, <<"*">> }

ConfidenceInputs == { NoConf, Conf("num", 50) }

ClassifierInputs ==
    { AnswerEvent(sp, d, c) :
        sp \in SpeechInputs, d \in DigitInputs, c \in ConfidenceInputs }

InitClassify ==
    /\ db_up = TRUE
    /\ calls = <<>>
    /\ questions = <<>>
    /\ vh_cache = <<>>
    /\ line = <<>>
    /\ answered = <<>>
    /\ el_cache = <<>>
    /\ agent = <<>>
    /\ SegIdle
    /\ cls_in \in ClassifierInputs
    /\ cls_out = NotClassified
    /\ threads = [t \in Threads |-> IdleThread]
    /\ base = Tables(<<>>, <<>>)
    /\ scan = IdleScan
    /\ last = NoResponse

\* process_answer classifies the event; _extract_answer classifies its
\* speech.
Classify ==
    /\ cls_out = NotClassified
    /\ cls_out' = [ivr |-> classify_answer(cls_in).answer,
                   confidence |-> classify_answer(cls_in).confidence,
                   agent |-> extract_answer(cls_in.speech)]
    /\ UNCHANGED <<cls_in, db_vars, ivr_vars, el_vars, seg_vars, race_vars, last>>

NextClassify == Classify

SpecClassify == InitClassify /\ [][NextClassify]_vars

(***************************************************************************)
(* Voice-agent channel (elevenlabs_handler.py and its routes in app.py).   *)
(* Keys of questions_cache are <<kind, number>>: the questions under the   *)
(* string and the int of the call id, "<id>_context", "<id>_phone_id",     *)
(* "<id>_conversation_id", "<id>_call_sid", "conv_<conversation>_call_id"  *)
(* and "sid_<sid>_call_id".  Identifiers are <<kind, number>> values.      *)
(***************************************************************************)
ConvId(a) == <<"conv", a>>

SidId(a) == <<"sid", a>>

\* x or y or z over identifiers, None being falsy.
OrV(x, y) == IF x # NoneV THEN x ELSE y

\* What the outbound-call request returns: both references, one of them,
\* none, or an error.
Replies == { "both", "conversation", "sid", "none", "error" }

\* Messages a transcript webhook carries: none, a greeting only, a question
\* with its answer, and a turn whose text is null.
WebhookMessages ==
    { <<>>,
      <<AgentTurn(T_greeting)>>,
      <<AgentTurn(T_q_insurance), UserTurn(T_yes)>>,
      <<S_MalformedTurn>> }

\* What the transcript endpoint of the backend returns when it is asked.
FetchedMessages == { <<>>, <<AgentTurn(T_q_medication), UserTurn(T_no)>> }

EventTypes ==
    { "call_started", "call_ended", "post_call_transcription", "transcription" }

\* The identifiers a webhook carries.
Carried ==
    { {"call_id"}, {"call_sid"}, {"conversation_id"},
      {"call_sid", "conversation_id"} }

\* SELECT id FROM calls WHERE call_sid = ?; 0 when there is no such row.
get_call_id_by_sid(tbl, call_sid) ==
    IF \E k \in DOMAIN tbl : tbl[k].call_sid = call_sid
    THEN CHOOSE k \in DOMAIN tbl :
            /\ tbl[k].call_sid = call_sid
            /\ \A j \in DOMAIN tbl : tbl[j].call_sid = call_sid => k <= j
    ELSE 0

\* The conversation_context initiate_call renders from the questions.
conversation_context(qs) == [questions_text |-> qs]

\* Resolution of a webhook to a call id: the reverse key, the scan of the
\* "<id>_conversation_id" keys, the datastore by call_sid, the datastore by
\* conversation_id.  Yields the cache after it and int(call_id), 0 for none.
resolve_in_cache(cache, conversation_id, call_id) ==
    IF conversation_id = NoneV \/ call_id # NoneV
    THEN [call_id |-> call_id, cache |-> cache]
    ELSE IF <<"conv_call_id", conversation_id[2]>> \in DOMAIN cache
    THEN [call_id |-> cache[<<"conv_call_id", conversation_id[2]>>],
          cache |-> cache]
    ELSE LET found == { k \in DOMAIN cache :
                          k[1] = "conversation_id" /\ cache[k] = conversation_id }
         IN  IF found = {} THEN [call_id |-> call_id, cache |-> cache]
             ELSE LET key == CHOOSE k \in found : \A j \in found : k[2] <= j[2]
                  IN  [call_id |-> PyStr(key[2]),
                       cache |-> Put(cache,
                                     <<"conv_call_id", conversation_id[2]>>,
                                     PyStr(key[2]))]

resolve_by_sid(r, call_sid, up) ==
    IF r.call_id = NoneV /\ call_sid # NoneV /\ up
          /\ get_call_id_by_sid(calls, call_sid) # 0
    THEN [call_id |-> PyInt(get_call_id_by_sid(calls, call_sid)),
          cache |-> Put(r.cache, <<"sid_call_id", call_sid[2]>>,
                        PyInt(get_call_id_by_sid(calls, call_sid)))]
    ELSE r

resolve_by_conversation(r, conversation_id, up) ==
    IF r.call_id = NoneV /\ conversation_id # NoneV /\ up
          /\ get_call_id_by_sid(calls, conversation_id) # 0
    THEN [call_id |-> PyInt(get_call_id_by_sid(calls, conversation_id)),
          cache |-> Put(r.cache, <<"conv_call_id", conversation_id[2]>>,
                        PyInt(get_call_id_by_sid(calls, conversation_id)))]
    ELSE r

resolve(cache, conversation_id, call_id, call_sid, up) ==
    LET r == resolve_by_conversation(
                 resolve_by_sid(resolve_in_cache(cache, conversation_id, call_id),
                                call_sid, up),
                 conversation_id, up)
    IN  [db_call_id |-> IF r.call_id = NoneV THEN 0 ELSE r.call_id[2],
         cache |-> r.cache]

\* full_transcript: the lines "ROLE: text" of the messages that have text.
S_colon == <<":", " ">>

S_newline == <<"\n">>

transcript_line(msg) ==
    IF msg.kind = "other" \/ ~Truthy(msg_text(msg)) THEN <<>>
    ELSE Upper(msg_role(msg, S_unknown)) \o S_colon \o msg_text(msg)

RECURSIVE full_transcript(_, _)
full_transcript(messages, i) ==
    IF i > Len(messages) THEN <<>>
    ELSE LET rest == full_transcript(messages, i + 1)
             this == transcript_line(messages[i])
         IN  IF this = <<>> THEN rest
             ELSE IF rest = <<>> THEN this
             ELSE this \o S_newline \o rest

\* role.upper() raises when a message with text has a null role.
transcript_raises(messages) ==
    \E i \in DOMAIN messages :
        /\ messages[i].kind = "dict"
        /\ Truthy(msg_text(messages[i]))
        /\ msg_role(messages[i], S_unknown) = NoneS

\* The rows of a call that carry a question number.
existing_question(tbl, call_id, question_number) ==
    { r \in DOMAIN tbl :
        tbl[r].call_id = call_id /\ tbl[r].question_number = question_number }

\* Saving the pairs of a transcript: insert the question when no row has
\* its number, else rewrite its text; then save_answer with confidence 0.9.
RECURSIVE save_pairs(_, _, _, _)
save_pairs(tbl, call_id, pairs, k) ==
    IF k > Len(pairs) THEN tbl
    ELSE LET qa == pairs[k]
             with_question ==
                 IF existing_question(tbl, call_id, qa.question_number) = {}
                 THEN Append(tbl, QuestionRow(call_id, qa.question,
                                              qa.question_number))
                 ELSE [r \in DOMAIN tbl |->
                         IF r \in existing_question(tbl, call_id,
                                                    qa.question_number)
                         THEN [tbl[r] EXCEPT !.question_text = qa.question]
                         ELSE tbl[r]]
         IN  save_pairs(save_answer(with_question, call_id, qa.question_number,
                                    qa.answer, 90, qa.raw_answer),
                        call_id, pairs, k + 1)

\* The backend's side of a dispatched call: its two references, what it
\* replied, and the conversation_context the request handed it.
Agent(call_id, a, reply, qs) ==
    [call_id |-> call_id, call_sid |-> SidId(a), conversation_id |-> ConvId(a),
     reply |-> reply, n |-> Len(qs), context |-> conversation_context(qs)]

\* POST /api/initiate-elevenlabs-call
InitiateElevenLabsCall(limit, phone_number, qs, reply, temp_id) ==
    IF start_rejected(phone_number, qs)
    THEN /\ last' = Response("initiate-elevenlabs-call", 400, 0)
         /\ UNCHANGED <<db_vars, ivr_vars, el_vars, seg_vars, cls_vars, race_vars>>
    ELSE /\ Len(agent) < limit
         /\ LET a == Len(agent) + 1
                call_id == IF db_up THEN Len(calls) + 1 ELSE temp_id
                created == IF db_up THEN create_call(calls, phone_number, qs)
                                    ELSE calls
                conversation_id == IF reply \in {"both", "conversation"}
                                   THEN ConvId(a) ELSE NoneV
                call_sid == IF reply \in {"both", "sid"} THEN SidId(a) ELSE NoneV
                returned == OrV(call_sid, OrV(conversation_id, PyStr(call_id)))
                cache1 == Put(Put(Put(Put(el_cache, PyStr(call_id), qs),
                                      PyInt(call_id), qs),
                                  <<"context", call_id>>, conversation_context(qs)),
                              <<"phone_id", call_id>>, "phone_number_id")
                cache2 == Put(Put(cache1, <<"conversation_id", call_id>>,
                                  conversation_id),
                              <<"call_sid", call_id>>, call_sid)
                cache3 == IF conversation_id # NoneV
                          THEN Put(cache2, <<"conv_call_id", conversation_id[2]>>,
                                   PyStr(call_id))
                          ELSE cache2
            IN  /\ questions' = IF db_up
                                THEN save_questions(questions, call_id, qs, 0)
                                ELSE questions
                /\ el_cache' = IF reply = "error" THEN cache1 ELSE cache3
                /\ calls' = IF db_up /\ reply # "error"
                            THEN update_call_sid(created, call_id, returned)
                            ELSE created
                /\ agent' = Append(agent, Agent(call_id, a, reply, qs))
                /\ last' = Response("initiate-elevenlabs-call",
                                    IF reply = "error" THEN 500 ELSE 200,
                                    call_id)
         /\ UNCHANGED <<db_up, ivr_vars, seg_vars, cls_vars, race_vars>>

\* The transcript branch without its guard on the resolved id: a transcript
\* that resolves to no call is filed under the latest call.
ingest_transcript_latest(db_call_id, messages) ==
    LET st == segment("webhook", messages)
        id == IF db_call_id = 0 THEN Len(calls) ELSE db_call_id
    IN  IF ~db_up \/ id \notin DOMAIN calls \/ messages = <<>> \/ st.raised
        THEN [calls |-> calls, questions |-> questions]
        ELSE [calls |-> complete_call(calls, id),
              questions |-> save_pairs(questions, id,
                                       st.questions_and_answers, 1)]

\* The transcript branch for post_call_transcription: what it leaves in the
\* tables calls and questions.
ingest_transcript(db_call_id, messages) ==
    LET st == segment("webhook", messages)
    IN  IF db_call_id = 0 \/ ~db_up \/ db_call_id \notin DOMAIN calls
             \/ messages = <<>> \/ st.raised
        THEN [calls |-> calls, questions |-> questions]
        ELSE [calls |-> complete_call(calls, db_call_id),
              questions |-> save_pairs(questions, db_call_id,
                                       st.questions_and_answers, 1)]

\* The branch for a plain transcription event: one answer, for question 0.
save_transcription(db_call_id, text) ==
    IF db_call_id = 0 \/ ~Truthy(text) \/ ~db_up THEN questions
    ELSE save_answer(questions, db_call_id, 0,
                     IF extract_answer(text) = "None" THEN "unclear"
                     ELSE extract_answer(text),
                     80, text)

\* handle_webhook: the call id a webhook resolves to (0 for none) and the
\* tables and the cache the handler leaves.
handle_webhook(event_type, conversation_id, call_id, call_sid, messages, fetched) ==
    LET r == resolve(el_cache, conversation_id, call_id, call_sid, db_up)
        db_call_id == r.db_call_id
        is_transcript == event_type \in {"post_call_transcription",
                                         "transcription"}
        msgs == IF messages = <<>> /\ conversation_id # NoneV
                   /\ event_type = "post_call_transcription"
                THEN fetched ELSE messages
        raises == is_transcript /\ transcript_raises(msgs)
        ingested == ingest_transcript(db_call_id, msgs)
    IN  [db_call_id |-> db_call_id,
         status |-> IF raises THEN "error" ELSE "ok",
         calls |->
             IF raises THEN calls
             ELSE IF event_type = "call_started"
             THEN IF db_up /\ db_call_id \in DOMAIN calls
                     /\ calls[db_call_id].call_sid # NoneV
                  THEN update_call_status(calls, calls[db_call_id].call_sid,
                                          "in-progress")
                  ELSE calls
             ELSE IF event_type = "call_ended"
             THEN IF db_up /\ db_call_id # 0
                  THEN complete_call(calls, db_call_id) ELSE calls
             ELSE IF event_type = "post_call_transcription"
             THEN ingested.calls
             ELSE calls,
         questions |->
             IF raises THEN questions
             ELSE IF event_type = "post_call_transcription"
             THEN ingested.questions
             ELSE IF event_type = "transcription"
             THEN save_transcription(db_call_id, full_transcript(msgs, 1))
             ELSE questions,
         cache |->
             IF event_type = "call_ended" /\ db_call_id # 0
             THEN Del(r.cache, PyStr(db_call_id))
             ELSE r.cache]

\* POST /api/elevenlabs-webhook: a webhook of the dispatched call a, with the
\* identifiers it carries, None for those it does not carry.
ElWebhook(a, event_type, conversation_id, call_id, call_sid, messages, fetched) ==
    /\ a \in DOMAIN agent
    /\ agent[a].reply # "error"
    /\ \E h \in { handle_webhook(event_type, conversation_id, call_id, call_sid,
                                  messages, fetched) } :
           /\ calls' = h.calls
           /\ questions' = h.questions
           /\ el_cache' = h.cache
           /\ last' = Response("elevenlabs-webhook", 200, h.db_call_id)
    /\ UNCHANGED <<db_up, ivr_vars, agent, seg_vars, cls_vars, race_vars>>

\* The identifiers of call a that a webhook carrying the kinds in c holds.
carried_ids(a, c) ==
    [conversation_id |-> IF "conversation_id" \in c
                         THEN agent[a].conversation_id ELSE NoneV,
     call_id |-> IF "call_id" \in c THEN PyStr(agent[a].call_id) ELSE NoneV,
     call_sid |-> IF "call_sid" \in c THEN agent[a].call_sid ELSE NoneV]

\* A webhook of call a carrying the identifiers named in c.
WebhookOf(a, event_type, c, messages, fetched) ==
    /\ a \in DOMAIN agent
    /\ ElWebhook(a, event_type, carried_ids(a, c).conversation_id,
                 carried_ids(a, c).call_id, carried_ids(a, c).call_sid,
                 messages, fetched)

\* The call id of a response for which handle_webhook did not run.
Unparsed == -1

\* The route elevenlabs_webhook: request.json raises on a body that is not
\* JSON and the route's except branch answers 500; else the webhook goes to
\* handle_webhook and its result is answered with 200.
ElevenlabsWebhookRoute(body_ok, a, event_type, c, messages, fetched) ==
    IF body_ok
    THEN WebhookOf(a, event_type, c, messages, fetched)
    ELSE /\ last' = Response("elevenlabs-webhook", 500, Unparsed)
         /\ UNCHANGED <<db_vars, ivr_vars, el_vars, seg_vars, cls_vars, race_vars>>

InitAgent ==
    /\ db_up = TRUE
    /\ InitData
    /\ SegIdle

NextAgent ==
    \/ \E p \in PhoneNumbers, qs \in QuestionLists, reply \in Replies, t \in TempIds :
          /\ StartInputs(p, qs, t)
          /\ ~start_rejected(p, qs)
          /\ InitiateElevenLabsCall(MaxCalls, p, qs, reply, t)
    \/ \E ok \in BOOLEAN, a \in 1..MaxCalls, e \in EventTypes, c \in Carried,
          m \in WebhookMessages, f \in FetchedMessages :
          /\ e \in {"call_started", "call_ended"} => m = <<>>
          /\ f # <<>> => /\ e = "post_call_transcription"
                         /\ m = <<>>
                         /\ "conversation_id" \in c
          /\ ~ok => (a = 1 /\ e = "call_started" /\ c = {"call_id"} /\ m = <<>>)
          /\ ElevenlabsWebhookRoute(ok, a, e, c, m, f)
    \/ DbFail
    \/ DbRestore
    \/ Restart

SpecAgent == InitAgent /\ [][NextAgent]_vars

(***************************************************************************)
(* Agent webhooks handled by two worker threads.  The server takes each    *)
(* request on a thread of its own and the handler holds no lock: a thread  *)
(* is atomic for one gateway call (one statement and its commit) and the   *)
(* threads interleave between gateway calls.                               *)
(***************************************************************************)
\* The transcripts and the events the two deliveries carry.
RaceMessages ==
    { <<AgentTurn(T_q_insurance), UserTurn(T_yes)>>,
      <<AgentTurn(T_q_insurance), UserTurn(T_no)>> }

RaceEvents == { "call_started", "call_ended", "post_call_transcription" }

\* handle_webhook dropping the transcript of a call that is completed
\* already.
webhook_alone_unless_completed(t, event_type, db_call_id, messages) ==
    LET st == segment("webhook", messages)
    IN  IF db_call_id \notin DOMAIN t.calls THEN t
        ELSE IF event_type = "call_started"
        THEN IF t.calls[db_call_id].call_sid # NoneV
             THEN Tables(update_call_status(t.calls, t.calls[db_call_id].call_sid,
                                            "in-progress"),
                         t.questions)
             ELSE t
        ELSE IF event_type = "call_ended"
        THEN Tables(complete_call(t.calls, db_call_id), t.questions)
        ELSE IF messages = <<>> \/ st.raised
                \/ t.calls[db_call_id].status = "completed" THEN t
        ELSE Tables(complete_call(t.calls, db_call_id),
                    save_pairs(t.questions, db_call_id,
                               st.questions_and_answers, 1))

\* What handle_webhook leaves in the tables t when it runs alone on a
\* webhook that resolves to db_call_id.
webhook_alone(t, event_type, db_call_id, messages) ==
    LET st == segment("webhook", messages)
    IN  IF db_call_id \notin DOMAIN t.calls THEN t
        ELSE IF event_type = "call_started"
        THEN IF t.calls[db_call_id].call_sid # NoneV
             THEN Tables(update_call_status(t.calls, t.calls[db_call_id].call_sid,
                                            "in-progress"),
                         t.questions)
             ELSE t
        ELSE IF event_type = "call_ended"
        THEN Tables(complete_call(t.calls, db_call_id), t.questions)
        ELSE IF messages = <<>> \/ st.raised THEN t
        ELSE Tables(complete_call(t.calls, db_call_id),
                    save_pairs(t.questions, db_call_id,
                               st.questions_and_answers, 1))

\* A thread takes up a webhook of call a that carries the call id: it
\* resolves the id and reaches its first gateway call.
Deliver(t, a, event_type, messages) ==
    /\ a \in DOMAIN agent
    /\ agent[a].reply # "error"
    /\ db_up
    /\ threads[t].pc = "idle"
    /\ LET r == resolve(el_cache, NoneV, PyStr(agent[a].call_id), NoneV, db_up)
       IN  /\ el_cache' = r.cache
           /\ threads' = [threads EXCEPT ![t] =
                  Thread(IF r.db_call_id = 0 THEN "done"
                         ELSE IF event_type = "call_ended" THEN "complete_call"
                         ELSE "get_call_data",
                         event_type, r.db_call_id, messages)]
    /\ base' = IF \A u \in Threads : threads[u].pc = "idle"
               THEN Tables(calls, questions) ELSE base
    /\ UNCHANGED <<db_vars, ivr_vars, agent, seg_vars, cls_vars, scan, last>>

\* The thread's next gateway call.
ThreadStep(t) ==
    LET th == threads[t]
        id == th.db_call_id
        st == segment("webhook", th.messages)
        qa == th.pairs[th.k]
    IN  /\ th.pc \notin {"idle", "done"}
        /\ db_up
        /\ CASE th.pc = "get_call_data" ->
                 /\ threads' = [threads EXCEPT
                       ![t].call_sid = IF id \in DOMAIN calls
                                       THEN calls[id].call_sid ELSE NoneV,
                       ![t].pairs = IF st.raised THEN <<>>
                                    ELSE st.questions_and_answers,
                       ![t].pc =
                          IF id \notin DOMAIN calls THEN "done"
                          ELSE IF th.event_type = "call_started"
                          THEN IF calls[id].call_sid # NoneV
                               THEN "update_call_status" ELSE "done"
                          ELSE IF th.messages = <<>> \/ st.raised THEN "done"
                          ELSE IF st.questions_and_answers = <<>>
                          THEN "complete_call"
                          ELSE "get_call_questions"]
                 /\ UNCHANGED <<calls, questions>>
             [] th.pc = "update_call_status" ->
                 /\ calls' = update_call_status(calls, th.call_sid, "in-progress")
                 /\ threads' = [threads EXCEPT ![t].pc = "done"]
                 /\ UNCHANGED questions
             [] th.pc = "get_call_questions" ->
                 /\ threads' = [threads EXCEPT
                       ![t].existing = existing_question(questions, id,
                                                         qa.question_number),
                       ![t].pc = "save_question"]
                 /\ UNCHANGED <<calls, questions>>
             [] th.pc = "save_question" ->
                 /\ questions' =
                       IF th.existing = {}
                       THEN Append(questions,
                                   QuestionRow(id, qa.question, qa.question_number))
                       ELSE [r \in DOMAIN questions |->
                               IF /\ questions[r].call_id = id
                                  /\ questions[r].question_number = qa.question_number
                               THEN [questions[r] EXCEPT !.question_text = qa.question]
                               ELSE questions[r]]
                 /\ threads' = [threads EXCEPT ![t].pc = "save_answer"]
                 /\ UNCHANGED calls
             [] th.pc = "save_answer" ->
                 /\ questions' = save_answer(questions, id, qa.question_number,
                                             qa.answer, 90, qa.raw_answer)
                 /\ threads' = [threads EXCEPT
                       ![t].k = th.k + 1,
                       ![t].pc = IF th.k < Len(th.pairs) THEN "get_call_questions"
                                 ELSE "complete_call"]
                 /\ UNCHANGED calls
             [] th.pc = "complete_call" ->
                 /\ calls' = complete_call(calls, id)
                 /\ threads' = [threads EXCEPT ![t].pc = "done"]
                 /\ UNCHANGED questions
        /\ UNCHANGED <<db_up, ivr_vars, el_vars, seg_vars, cls_vars, base, scan, last>>

InitRace ==
    /\ db_up = TRUE
    /\ InitData
    /\ SegIdle

NextRace ==
    \/ \E p \in PhoneNumbers, qs \in QuestionLists :
          /\ ~start_rejected(p, qs)
          /\ InitiateElevenLabsCall(MaxCalls, p, qs, "both", TempIdLow)
    \/ \E t \in Threads, a \in 1..MaxCalls, e \in RaceEvents, m \in RaceMessages :
          /\ e # "post_call_transcription" => m = <<AgentTurn(T_q_insurance), UserTurn(T_yes)>>
          /\ Deliver(t, a, e, m)
    \/ \E t \in Threads : ThreadStep(t)

SpecRace == InitRace /\ [][NextRace]_vars

(***************************************************************************)
(* A webhook resolved through the cache while calls are being started.     *)
(* questions_cache is a plain dict shared by the worker threads; its       *)
(* iterator raises RuntimeError when the dict has changed size since the   *)
(* iterator was made.                                                      *)
(***************************************************************************)
ScanCalls == MaxCalls + 1

ScanReplies == { "both", "sid" }

\* A worker thread takes up a webhook of call a that carries its
\* conversation id and no call id: the reverse key answers at once,
\* otherwise the walk over the items of the cache begins.
ScanBegin(a) ==
    /\ a \in DOMAIN agent
    /\ scan.pc = "idle"
    /\ LET conversation_id == agent[a].conversation_id
           reverse_key == <<"conv_call_id", conversation_id[2]>>
       IN  scan' = IF reverse_key \in DOMAIN el_cache
                   THEN Scan("found", conversation_id, 0, {},
                             el_cache[reverse_key])
                   ELSE Scan("items", conversation_id,
                             Cardinality(DOMAIN el_cache), {}, NoneV)
    /\ UNCHANGED <<db_vars, ivr_vars, el_vars, seg_vars, cls_vars, threads,
                   base, last>>

\* The iterator's next item and the body of the loop for it.  At most one
\* key holds the conversation id, so the order of the walk does not bear on
\* what it finds.
ScanNext ==
    /\ scan.pc = "items"
    /\ IF Cardinality(DOMAIN el_cache) # scan.used
       THEN /\ scan' = [scan EXCEPT !.pc = "raised"]
            /\ UNCHANGED el_cache
       ELSE IF DOMAIN el_cache \subseteq scan.seen
       THEN /\ scan' = [scan EXCEPT !.pc = "missing"]
            /\ UNCHANGED el_cache
       ELSE \E key \in { CHOOSE k \in DOMAIN el_cache \ scan.seen : TRUE } :
               IF key[1] = "conversation_id"
                  /\ el_cache[key] = scan.conversation_id
               THEN /\ scan' = [scan EXCEPT !.pc = "found",
                                            !.call_id = PyStr(key[2])]
                    /\ el_cache' = Put(el_cache,
                                       <<"conv_call_id",
                                         scan.conversation_id[2]>>,
                                       PyStr(key[2]))
               ELSE /\ scan' = [scan EXCEPT !.seen = scan.seen \cup {key}]
                    /\ UNCHANGED el_cache
    /\ UNCHANGED <<db_vars, ivr_vars, agent, seg_vars, cls_vars, threads,
                   base, last>>

\* The webhook returns and the thread is free again.
ScanEnd ==
    /\ scan.pc \in {"found", "missing", "raised"}
    /\ scan' = IdleScan
    /\ UNCHANGED <<db_vars, ivr_vars, el_vars, seg_vars, cls_vars, threads,
                   base, last>>

InitScan ==
    /\ db_up = TRUE
    /\ InitData
    /\ SegIdle

NextScan ==
    \/ \E p \in PhoneNumbers, qs \in QuestionLists, reply \in ScanReplies,
          t \in TempIds :
          /\ StartInputs(p, qs, t)
          /\ ~start_rejected(p, qs)
          /\ InitiateElevenLabsCall(ScanCalls, p, qs, reply, t)
    \/ \E a \in 1..ScanCalls : ScanBegin(a)
    \/ ScanNext
    \/ ScanEnd
    \/ DbFail

SpecScan == InitScan /\ [][NextScan]_vars

\* C31: a webhook that resolves through the cache while another thread
\* inserts the mappings of a newly started call neither fails (the walk over
\* the cache does not raise) nor resolves to a call other than its own.
C31_CacheSafeUnderConcurrency ==
    /\ scan.pc # "raised"
    /\ scan.pc = "found" =>
          \E a \in DOMAIN agent :
             /\ agent[a].conversation_id = scan.conversation_id
             /\ scan.call_id = PyStr(agent[a].call_id)

\* The context the cache yields for a conversation id: the call id the
\* cache resolves it to, then the entry "<call_id>_context" (the empty text
\* when either is missing).
context_by_conversation(cache, conversation_id) ==
    LET r == resolve_in_cache(cache, conversation_id, NoneV)
    IN  IF r.call_id = NoneV
           \/ <<"context", r.call_id[2]>> \notin DOMAIN r.cache
        THEN NoneS
        ELSE r.cache[<<"context", r.call_id[2]>>]

\* handle_webhook run on what an earlier webhook h left (its cache and its
\* tables): a call_ended or post_call_transcription webhook carrying ids.
\* Neither webhook writes the column call_sid, which the lookups in the
\* datastore read.
then_webhook(h, event_type, ids, messages, fetched) ==
    LET r == resolve(h.cache, ids.conversation_id, ids.call_id, ids.call_sid,
                     db_up)
        msgs == IF messages = <<>> /\ ids.conversation_id # NoneV
                   /\ event_type = "post_call_transcription"
                THEN fetched ELSE messages
        t == Tables(h.calls, h.questions)
        after == IF ~db_up
                    \/ (event_type = "post_call_transcription"
                        /\ transcript_raises(msgs))
                 THEN t
                 ELSE webhook_alone(t, event_type, r.db_call_id, msgs)
    IN  [db_call_id |-> r.db_call_id,
         calls |-> after.calls,
         questions |-> after.questions,
         cache |-> IF event_type = "call_ended" /\ r.db_call_id # 0
                   THEN Del(r.cache, PyStr(r.db_call_id))
                   ELSE r.cache]

\* The transcripts of the two-webhook comparison: one with an answered
\* question, and none (the handler then asks the backend for it).
EndMessages == { <<AgentTurn(T_q_insurance), UserTurn(T_yes)>>, <<>> }

\* C37: the call_ended and the post_call_transcription webhook of a call
\* commute: the later one resolves to the id it resolves to when it comes
\* first, and both orders leave the same tables and the same cache, the
\* call completed when the datastore holds its row.
C37_EndAndTranscriptCommute ==
    \A a \in DOMAIN agent, ce \in Carried, ct \in Carried, m \in EndMessages :
        agent[a].reply # "error" =>
        \A e1 \in { handle_webhook("call_ended",
                                    carried_ids(a, ce).conversation_id,
                                    carried_ids(a, ce).call_id,
                                    carried_ids(a, ce).call_sid, <<>>, <<>>) },
           t1 \in { handle_webhook("post_call_transcription",
                                    carried_ids(a, ct).conversation_id,
                                    carried_ids(a, ct).call_id,
                                    carried_ids(a, ct).call_sid, m,
                                    <<AgentTurn(T_q_medication), UserTurn(T_no)>>) } :
           \A t2 \in { then_webhook(e1, "post_call_transcription",
                                     carried_ids(a, ct), m,
                                     <<AgentTurn(T_q_medication), UserTurn(T_no)>>) },
              e2 \in { then_webhook(t1, "call_ended", carried_ids(a, ce),
                                     <<>>, <<>>) } :
              /\ t2.db_call_id = t1.db_call_id
              /\ e2.db_call_id = e1.db_call_id
              /\ t2.calls = e2.calls
              /\ t2.questions = e2.questions
              /\ t2.cache = e2.cache
              /\ (db_up /\ e1.db_call_id \in DOMAIN calls)
                 => t2.calls[e1.db_call_id].status = "completed"

\* Both webhooks of a call have been handled: the call is completed, an
\* answer of its transcript is stored, and its questions have left the cache
\* while its other entries are still there.
C37_Witness ==
    \E a \in DOMAIN agent :
        /\ agent[a].call_id \in DOMAIN calls
        /\ calls[agent[a].call_id].status = "completed"
        /\ \E r \in DOMAIN questions :
              /\ questions[r].call_id = agent[a].call_id
              /\ questions[r].response_confidence = 90
        /\ PyStr(agent[a].call_id) \notin DOMAIN el_cache
        /\ <<"context", agent[a].call_id>> \in DOMAIN el_cache
        /\ last.route = "elevenlabs-webhook"

\* C33: for a call whose dispatch recorded a conversation id, the cache
\* yields for that conversation id the context rendered from the call's own
\* question list.
C33_ContextByConversation ==
    \A a \in DOMAIN agent :
        agent[a].reply \in {"both", "conversation"}
        => context_by_conversation(el_cache, agent[a].conversation_id)
              = agent[a].context

(***************************************************************************)
(* Form-filling sessions of the agent (start_agent_session and             *)
(* handle_tool_call of elevenlabs_handler.py).                             *)
(***************************************************************************)
\* "Has an Enduring Power of Attorney been enacted for this client?"
L_question_1 ==
    <<"H", "a", "s", " ", "a", "n", " ", "E", "n", "d", "u", "r", "i",
      "n", "g", " ", "P", "o", "w", "e", "r", " ", "o", "f", " ", "A",
      "t", "t", "o", "r", "n", "e", "y", " ", "b", "e", "e", "n", " ",
      "e", "n", "a", "c", "t", "e", "d", " ", "f", "o", "r", " ", "t",
      "h", "i", "s", " ", "c", "l", "i", "e", "n", "t", "?">>

\* "Has a Do Not Resuscitate (DNR) order been discussed with the client?"
L_question_2 ==
    <<"H", "a", "s", " ", "a", " ", "D", "o", " ", "N", "o", "t", " ",
      "R", "e", "s", "u", "s", "c", "i", "t", "a", "t", "e", " ", "(",
      "D", "N", "R", ")", " ", "o", "r", "d", "e", "r", " ", "b", "e",
      "e", "n", " ", "d", "i", "s", "c", "u", "s", "s", "e", "d", " ",
      "w", "i", "t", "h", " ", "t", "h", "e", " ", "c", "l", "i", "e",
      "n", "t", "?">>

\* "Has the client's family/whanau been informed about the client's CPR wishes?"
L_question_3 ==
    <<"H", "a", "s", " ", "t", "h", "e", " ", "c", "l", "i", "e", "n",
      "t", "'", "s", " ", "f", "a", "m", "i", "l", "y", "/", "w", "h",
      "a", "n", "a", "u", " ", "b", "e", "e", "n", " ", "i", "n", "f",
      "o", "r", "m", "e", "d", " ", "a", "b", "o", "u", "t", " ", "t",
      "h", "e", " ", "c", "l", "i", "e", "n", "t", "'", "s", " ", "C",
      "P", "R", " ", "w", "i", "s", "h", "e", "s", "?">>

\* "Does the client identify with any iwi or hapu?"
L_question_4 ==
    <<"D", "o", "e", "s", " ", "t", "h", "e", " ", "c", "l", "i", "e",
      "n", "t", " ", "i", "d", "e", "n", "t", "i", "f", "y", " ", "w",
      "i", "t", "h", " ", "a", "n", "y", " ", "i", "w", "i", " ", "o",
      "r", " ", "h", "a", "p", "u", "?">>

\* "Has the client been offered cultural support, and did they accept or decline it?"
L_question_5 ==
    <<"H", "a", "s", " ", "t", "h", "e", " ", "c", "l", "i", "e", "n",
      "t", " ", "b", "e", "e", "n", " ", "o", "f", "f", "e", "r", "e",
      "d", " ", "c", "u", "l", "t", "u", "r", "a", "l", " ", "s", "u",
      "p", "p", "o", "r", "t", ",", " ", "a", "n", "d", " ", "d", "i",
      "d", " ", "t", "h", "e", "y", " ", "a", "c", "c", "e", "p", "t", " ", "o", "r", " ", "d", "e", "c", "l", "i", "n", "e", " ", "i",
      "t", "?">>

\* LIST_OF_QUESTIONS: the questions of a form-filling session (the long
\* vowels of whanau and hapu written as plain letters).
LIST_OF_QUESTIONS ==
    <<L_question_1, L_question_2, L_question_3, L_question_4, L_question_5>>

MaxSessions == 2

S_EL == <<"E", "L", "-">>

\* The entry questions_cache[session_id] of a session: a dict that holds
\* the call id.
Session(call_id) == [call_id |-> call_id, current_question |-> 0]

\* The keys of the cache whose value is a dict; session_id is a uuid4,
\* written here as the rank of the session among those started.
SessionKeys(cache) == { k \in DOMAIN cache : k[1] = "session" }

\* The conversation id the backend gives the conversation of session s.
SessionConv(s) == ConvId(MaxCalls + s)

\* form_data of a submit_form call: question_<i> -> boolean, for the keys
\* it holds.  All answered yes, answered alternately, and one that lacks
\* the last question.
Forms ==
    { [i \in 1..Len(LIST_OF_QUESTIONS) |-> TRUE],
      [i \in 1..Len(LIST_OF_QUESTIONS) |-> i % 2 = 1],
      [i \in 1..(Len(LIST_OF_QUESTIONS) - 1) |-> FALSE] }

ToolNames == { "submit_form", "other_tool" }

\* start_agent_session: the call row, the first question saved under number
\* 1, and the session entry of the cache.
start_agent_session(cache, c, q, up, temp_id) ==
    LET call_id == IF up THEN Len(c) + 1 ELSE temp_id
    IN  [call_id |-> call_id,
         calls |-> IF up THEN create_call(c, S_EL, LIST_OF_QUESTIONS) ELSE c,
         questions |-> IF up
                       THEN Append(q, QuestionRow(call_id, LIST_OF_QUESTIONS[1], 1))
                       ELSE q,
         cache |-> Put(cache, <<"session", Cardinality(SessionKeys(cache)) + 1>>,
                       Session(call_id))]

\* The loop of handle_tool_call over LIST_OF_QUESTIONS: insert the question
\* when no row has its number, then save_answer with confidence 1.0.
RECURSIVE save_form(_, _, _, _)
save_form(tbl, call_id, form_data, i) ==
    IF i > Len(LIST_OF_QUESTIONS) THEN tbl
    ELSE LET answer == IF i \in DOMAIN form_data /\ form_data[i]
                       THEN "yes" ELSE "no"
             raw == IF answer = "yes" THEN T_yes ELSE T_no
             with_question ==
                 IF existing_question(tbl, call_id, i) = {}
                 THEN Append(tbl, QuestionRow(call_id, LIST_OF_QUESTIONS[i], i))
                 ELSE tbl
         IN  save_form(save_answer(with_question, call_id, i, answer, 100, raw),
                       call_id, form_data, i + 1)

\* The session a submit_form call is applied to: the "<id>_conversation_id"
\* key that holds the conversation id, else the first entry of the cache
\* that is a dict with a call id; NoneV when there is neither.
find_session(cache, conversation_id) ==
    LET found == { k \in DOMAIN cache :
                     /\ conversation_id # NoneV
                     /\ k[1] = "conversation_id"
                     /\ cache[k] = conversation_id }
        dicts == { k \in SessionKeys(cache) : cache[k].call_id # 0 }
    IN  IF found # {}
        THEN PyStr((CHOOSE k \in found : \A j \in found : k[2] <= j[2])[2])
        ELSE IF dicts # {}
        THEN CHOOSE k \in dicts : \A j \in dicts : k[2] <= j[2]
        ELSE NoneV

\* handle_tool_call: its status ("raised" when an exception leaves it), the
\* call id it applied the form to (0 for none) and the tables it leaves.
handle_tool_call(cache, c, q, up, tool_name, form_data, conversation_id) ==
    LET unchanged(status) ==
            [status |-> status, call_id |-> 0, calls |-> c, questions |-> q]
        session_id == find_session(cache, conversation_id)
    IN  IF tool_name # "submit_form" THEN unchanged("unknown_tool")
        ELSE IF \E i \in 1..Len(LIST_OF_QUESTIONS) : i \notin DOMAIN form_data
        THEN unchanged("error")
        ELSE IF session_id = NoneV \/ session_id \notin DOMAIN cache
        THEN unchanged("success")
        ELSE IF session_id[1] # "session"
        THEN unchanged("raised")
        ELSE IF ~up \/ cache[session_id].call_id = 0
        THEN unchanged("success")
        ELSE [status |-> "success",
              call_id |-> cache[session_id].call_id,
              calls |-> complete_call(c, cache[session_id].call_id),
              questions |-> save_form(q, cache[session_id].call_id,
                                      form_data, 1)]

StartAgentSession(limit, temp_id) ==
    /\ Cardinality(SessionKeys(el_cache)) < limit
    /\ \E r \in { start_agent_session(el_cache, calls, questions, db_up,
                                      temp_id) } :
          /\ calls' = r.calls
          /\ questions' = r.questions
          /\ el_cache' = r.cache
    /\ UNCHANGED <<db_up, ivr_vars, agent, seg_vars, cls_vars, race_vars, last>>

\* The agent of session s calls a tool.
ToolCall(s, tool_name, form_data) ==
    /\ <<"session", s>> \in DOMAIN el_cache
    /\ \E h \in { handle_tool_call(el_cache, calls, questions, db_up,
                                   tool_name, form_data, SessionConv(s)) } :
          /\ calls' = h.calls
          /\ questions' = h.questions
    /\ UNCHANGED <<db_up, ivr_vars, el_vars, seg_vars, cls_vars, race_vars, last>>

InitTool ==
    /\ db_up = TRUE
    /\ InitData
    /\ SegIdle

NextTool ==
    \/ \E p \in PhoneNumbers, qs \in QuestionLists :
          /\ ~start_rejected(p, qs)
          /\ InitiateElevenLabsCall(MaxCalls, p, qs, "both", TempIdLow)
    \/ \E t \in TempIds :
          /\ db_up => t = TempIdLow
          /\ StartAgentSession(MaxSessions, t)
    \/ \E s \in 1..MaxSessions, tool_name \in ToolNames, form_data \in Forms :
          /\ tool_name # "submit_form" => form_data = [i \in 1..Len(LIST_OF_QUESTIONS) |-> TRUE]
          /\ ToolCall(s, tool_name, form_data)
    \/ DbFail

SpecTool == InitTool /\ [][NextTool]_vars

\* The row of a call, its question rows, and its entries of the cache.
OfCall(c, q, cache, call_id) ==
    [call |-> IF call_id \in DOMAIN c THEN <<c[call_id]>> ELSE <<>>,
     questions |-> SelectSeq(q, LAMBDA row : row.call_id = call_id),
     cache |-> { <<k, cache[k]>> : k \in { j \in DOMAIN cache \ SessionKeys(cache) :
                                             j[2] = call_id } }
               \cup { <<k, cache[k]>> : k \in { j \in SessionKeys(cache) :
                                                  cache[j].call_id = call_id } }]

\* C34: a webhook of a dispatched call, and a submit_form call made in the
\* conversation of a session or in a conversation the cache does not know,
\* leave the row, the question rows and the cache entries of every other
\* call as they were.
C34_CallsIndependent ==
    /\ \A a \in DOMAIN agent, e \in EventTypes, b \in DOMAIN calls :
          LET h == handle_webhook(e, agent[a].conversation_id, NoneV, NoneV,
                                  <<AgentTurn(T_q_insurance), UserTurn(T_yes)>>,
                                  <<>>)
          IN  (agent[a].reply # "error" /\ b # agent[a].call_id)
              => OfCall(h.calls, h.questions, h.cache, b)
                    = OfCall(calls, questions, el_cache, b)
    /\ \A s \in 0..MaxSessions, form_data \in Forms, b \in DOMAIN calls :
          LET h == handle_tool_call(el_cache, calls, questions, db_up,
                                    "submit_form", form_data, SessionConv(s))
          IN  (<<"session", s>> \in DOMAIN el_cache
                  => b # el_cache[<<"session", s>>].call_id)
              => OfCall(h.calls, h.questions, el_cache, b)
                    = OfCall(calls, questions, el_cache, b)

(***************************************************************************)
(* The datastore is unreachable from the start and stays so.               *)
(***************************************************************************)
InitOutage ==
    /\ db_up = FALSE
    /\ InitData
    /\ SegIdle

NextOutage ==
    \/ \E p \in PhoneNumbers, qs \in QuestionLists, ok \in BOOLEAN, t \in TempIds :
          /\ StartInputs(p, qs, t)
          /\ ~start_rejected(p, qs)
          /\ InitiateCall(MaxCalls, p, qs, ok, t)
    \/ \E i \in 1..MaxCalls : VoiceFlow(i)
    \/ \E i \in 1..MaxCalls, q \in QNums, ev \in AnswerEvents : ProcessAnswer(i, q, ev)
    \/ \E i \in 1..MaxCalls : GatherTimeout(i)
    \/ Restart

SpecOutage == InitOutage /\ [][NextOutage]_vars

(***************************************************************************)
(* The two start routes alone.                                             *)
(***************************************************************************)
InitStart ==
    /\ db_up = TRUE
    /\ InitData
    /\ SegIdle

NextStart ==
    \/ \E p \in PhoneNumbers, qs \in QuestionLists, ok \in BOOLEAN, t \in TempIds :
          /\ StartInputs(p, qs, t)
          /\ start_rejected(p, qs) => ok
          /\ InitiateCall(MaxCalls, p, qs, ok, t)
    \/ \E p \in PhoneNumbers, qs \in QuestionLists, reply \in Replies, t \in TempIds :
          /\ StartInputs(p, qs, t)
          /\ start_rejected(p, qs) => reply = "both"
          /\ InitiateElevenLabsCall(MaxCalls, p, qs, reply, t)
    \/ DbFail
    \/ DbRestore
    \/ Restart

SpecStart == InitStart /\ [][NextStart]_vars

(***************************************************************************)
(* Properties of the IVR channel.                                          *)
(***************************************************************************)
\* The call of line i was created in the datastore and k is one of its slots.
StoredSlot(i, k) ==
    /\ line[i].call_id \in DOMAIN calls
    /\ k \in 0..(line[i].n - 1)

\* C1: when process_answer has run twice for the same call and the same slot
\* k (the first run being the action of the Gather of question k, both
\* writes reaching the store), there is exactly one AnswerRecord for
\* (call_id, k), it holds the classification of the second run, and the
\* q_num the provider is redirected to is k + 1: one slot past k, not two.
C1_SecondAnswerOverwrites ==
    \A i \in DOMAIN line :
        (/\ line[i].pc = "flow"
         /\ line[i].via = "answer"
         /\ answered[i].twice # "no"
         /\ StoredSlot(i, answered[i].q))
        => /\ Cardinality(AnswerRecords(line[i].call_id, answered[i].q)) = 1
           /\ \A r \in AnswerRecords(line[i].call_id, answered[i].q) :
                 questions[r].response = answered[i].answer
           /\ line[i].q_num = answered[i].q + 1

\* A second process_answer for the same slot, classified differently from
\* the first, has just returned.
C1_Witness ==
    \E i \in DOMAIN line :
        /\ line[i].pc = "flow"
        /\ line[i].via = "answer"
        /\ answered[i].twice = "changed"
        /\ StoredSlot(i, answered[i].q)

\* C2: in every step the q_num of every call does not decrease and, after
\* the step, does not exceed the number N of the call's questions.
C2_PointerMonotoneBounded ==
    [][\A i \in DOMAIN line :
          /\ line'[i].q_num >= line[i].q_num
          /\ line'[i].q_num <= line[i].n]_vars

\* C3: a process_answer for a slot below the current q_num leaves the q_num
\* where it is.
C3_StaleAnswerKeepsPointer ==
    [][\A i \in DOMAIN line, q \in QNums, ev \in AnswerEvents :
          (ProcessAnswer(i, q, ev) /\ q < line[i].q_num)
          => line'[i].q_num = line[i].q_num]_vars

\* C4: for a call started with two questions, when the Gather of Q1 has
\* ended without input and the flow asks for q_num = 1, Q2 is asked, the
\* AnswerRecord of Q1 is (timeout, 0.0), and the status has not become
\* failed.
C4_TimeoutRecorded ==
    [][\A i \in DOMAIN line :
          (/\ VoiceFlow(i)
           /\ line[i].via = "timeout"
           /\ line[i].q_num = 1
           /\ db_up
           /\ line[i].call_id \in DOMAIN calls
           /\ Len(valid_questions(calls[line[i].call_id].questions_json)) = 2)
          => /\ line'[i].pc = "gather"
             /\ \A r \in AnswerRecords(line[i].call_id, 0) :
                   /\ questions'[r].response = "timeout"
                   /\ questions'[r].response_confidence = 0
             /\ (calls[line[i].call_id].status # "failed"
                 => calls'[line[i].call_id].status # "failed")]_vars

\* C5: with the datastore unreachable throughout, once the flow of a call
\* has ended after an answer to one of its slots, the classification of that
\* answer is what the engine reports for the slot.
C5_OutageAnswersRetrievable ==
    \A i \in DOMAIN line :
        (/\ line[i].pc = "done"
         /\ line[i].via = "answer"
         /\ answered[i].genuine
         /\ answered[i].q \in 0..(line[i].n - 1))
        => get_call_results(line[i].call_id, answered[i].q) = answered[i].answer

\* C11: a voice-flow request leaves the q_num of its call unchanged and the
\* same request made again returns the same document; and every step that
\* changes the q_num of a call is a process_answer of that call.
C11_AskIdempotentOnlyAnswerAdvances ==
    [][\A i \in DOMAIN line :
          /\ VoiceFlow(i)
             => /\ line'[i].q_num = line[i].q_num
                /\ handle_voice_flow(vh_cache', calls', db_up',
                                     line[i].call_id, line[i].q_num).twiml
                   = handle_voice_flow(vh_cache, calls, db_up,
                                       line[i].call_id, line[i].q_num).twiml
          /\ line'[i].q_num # line[i].q_num
             => \E q \in QNums, ev \in AnswerEvents : ProcessAnswer(i, q, ev)]_vars

\* C12: for a dialed call with N questions that the reachable datastore holds,
\* handle_voice_flow returns the text of question q for every q below N and
\* leaves the status as it is, and at q = N it returns the thank-you prompt
\* and leaves the call completed.
C12_AskReturnsSlotThenCompletes ==
    \A i \in DOMAIN line :
        (db_up /\ line[i].call_id \in DOMAIN calls /\ line[i].pc # "undialed")
        => \A q \in 0..line[i].n :
              LET call_id == line[i].call_id
                  r == handle_voice_flow(vh_cache, calls, db_up, call_id, q)
              IN  IF q < line[i].n
                  THEN /\ r.twiml.say = "question"
                       /\ r.twiml.text = calls[call_id].questions_json[q + 1]
                       /\ r.calls[call_id].status = calls[call_id].status
                  ELSE /\ r.twiml.say = "thank you"
                       /\ r.calls[call_id].status = "completed"

(***************************************************************************)
(* Properties of the start routes.                                         *)
(***************************************************************************)
\* A start request with no phone number, a phone number without a leading
\* "+", or no question.
InvalidStart(phone_number, qs) ==
    \/ phone_number \in { NoneS, <<>> }
    \/ phone_number[1] # "+"
    \/ Len(qs) = 0

\* A step is the handling of a start request with these inputs by one of
\* the two routes.
StartStep(phone_number, qs) ==
    \/ \E ok \in BOOLEAN, t \in TempIds :
          InitiateCall(MaxCalls, phone_number, qs, ok, t)
    \/ \E reply \in Replies, t \in TempIds :
          InitiateElevenLabsCall(MaxCalls, phone_number, qs, reply, t)

\* C16: a start request with an invalid phone number or no question is
\* answered 400 and leaves the tables calls and questions, both caches and
\* the calls handed to the providers as they were.
C16_RejectedStartCreatesNothing ==
    [][\A p \in PhoneNumbers, qs \in QuestionLists :
          (InvalidStart(p, qs) /\ StartStep(p, qs))
          => /\ last'.code = 400
             /\ UNCHANGED <<calls, questions, vh_cache, el_cache, line, agent>>]_vars

\* A start request has been rejected while an earlier call is in place.
C16_Witness ==
    /\ last.code = 400
    /\ Len(calls) = 1
    /\ Len(line) + Len(agent) = 1

\* C17: when the provider does not take the call, the start route answers
\* with the error and the row it created is marked failed, is not ringing and
\* holds no provider reference.
C17_DispatchFailureMarksFailed ==
    [][(last'.code = 500 /\ Len(calls') > Len(calls))
          => /\ calls'[last'.call_id].status = "failed"
             /\ calls'[last'.call_id].call_sid = NoneV]_vars

\* The internal ids of the calls the start routes have created, per route.
StartedIds ==
    [route \in {"initiate-call", "initiate-elevenlabs-call"} |->
        IF route = "initiate-call"
        THEN [i \in DOMAIN line |-> line[i].call_id]
        ELSE [a \in DOMAIN agent |-> agent[a].call_id]]

\* C24: any two calls the start routes have created carry different
\* internal ids, also when the ids come from the fallback allocator.
C24_InternalIdsUnique ==
    /\ \A r \in DOMAIN StartedIds :
          \A i, j \in DOMAIN StartedIds[r] :
             i # j => StartedIds[r][i] # StartedIds[r][j]
    /\ \A i \in DOMAIN line, a \in DOMAIN agent : line[i].call_id # agent[a].call_id

\* The flow of call i has ended with the question number at the number of
\* the call's questions and the call completed.
FlowCompleted(i) ==
    /\ line[i].pc = "done"
    /\ line[i].q_num = line[i].n
    /\ line[i].call_id \in DOMAIN calls
    /\ calls[line[i].call_id].status = "completed"

\* C25: a dialed call does not stall: whether its slots receive an answer
\* or no input, the flow reaches the number of its questions and the call
\* becomes completed.
C25_NoInputDoesNotStall ==
    \A i \in 1..MaxCalls :
       (i \in DOMAIN line /\ line[i].pc = "flow") ~> (i \in DOMAIN line /\ FlowCompleted(i))

\* The reference the backend returned for the dispatched call a, the first
\* of call_sid and conversation_id it carries.
ReturnedReference(a) ==
    IF agent[a].reply \in {"both", "sid"} THEN agent[a].call_sid
    ELSE IF agent[a].reply = "conversation" THEN agent[a].conversation_id
    ELSE NoneV

LifecycleStatuses == { "initiated", "ringing", "in-progress", "completed", "failed" }

\* C18: the status of every call is one of created, ringing, in_progress,
\* completed, failed; a status event with any other value leaves the stored
\* status as it was.
C18_StatusInLifecycle ==
    \A k \in DOMAIN calls : calls[k].status \in LifecycleStatuses

\* C19: completed and failed are absorbing: a call whose status is
\* completed or failed keeps that status in every later step.
C19_TerminalAbsorbing ==
    [][\A k \in DOMAIN calls :
          calls[k].status \in {"completed", "failed"}
          => calls'[k].status = calls[k].status]_vars

\* The resolution of a webhook of call a carrying the identifier kinds in c,
\* from the cache given, with the datastore reachable or not.
Resolved(cache, a, c, up) ==
    resolve(cache, carried_ids(a, c).conversation_id, carried_ids(a, c).call_id,
            carried_ids(a, c).call_sid, up)

\* C26: once a webhook carrying only the provider reference or only the
\* conversation reference has been resolved to a call id, resolving the same
\* identifier again from the cache that resolution left finds the same id
\* without the datastore.
C26_ResolutionBackfilled ==
    \A a \in DOMAIN agent, c \in { {"call_sid"}, {"conversation_id"} } :
        LET first == Resolved(el_cache, a, c, db_up)
        IN  first.db_call_id # 0
            => Resolved(first.cache, a, c, FALSE).db_call_id = first.db_call_id

\* The rows of table questions that belong to the call.
SlotsOf(call_id) == { r \in DOMAIN questions : questions[r].call_id = call_id }

\* C27: the question rows of a call dispatched with N questions carry the
\* numbers 0..N-1, one row per number and no further row, also after its
\* transcript has been ingested.
C27_SlotsStayContiguous ==
    \A a \in DOMAIN agent :
        agent[a].call_id \in DOMAIN calls
        => /\ \A r \in SlotsOf(agent[a].call_id) :
                 questions[r].question_number \in 0..(agent[a].n - 1)
           /\ \A k \in 0..(agent[a].n - 1) :
                 Cardinality({ r \in SlotsOf(agent[a].call_id) :
                                 questions[r].question_number = k }) = 1

\* The keys of a handler's cache that a dispatch wrote for the call: those
\* made of the call id, and the reverse key that leads to it.
DispatchKeys(cache, call_id) ==
    { k \in DOMAIN cache :
        \/ k[1] \in {"str", "int", "context", "phone_id", "conversation_id",
                     "call_sid"}
           /\ k[2] = call_id
        \/ k[1] = "conv_call_id" /\ cache[k] = PyStr(call_id) }

\* C39: the completion cleanup of a call (handle_voice_flow returning the
\* thank-you, the call_ended webhook) leaves in the handler's cache no key
\* that the dispatch wrote for the call, and every key of another call.
C39_CacheReleasedOnCompletion ==
    /\ \A i \in DOMAIN line, q \in QNums :
          \A r \in { handle_voice_flow(vh_cache, calls, db_up, line[i].call_id, q) } :
             r.twiml.say = "thank you"
             => /\ DispatchKeys(r.cache, line[i].call_id) = {}
                /\ \A k \in DOMAIN vh_cache \ DispatchKeys(vh_cache, line[i].call_id) :
                      k \in DOMAIN r.cache
    /\ \A a \in DOMAIN agent, c \in Carried :
          \A h \in { handle_webhook("call_ended",
                                    carried_ids(a, c).conversation_id,
                                    carried_ids(a, c).call_id,
                                    carried_ids(a, c).call_sid, <<>>, <<>>) } :
             (agent[a].reply # "error" /\ h.db_call_id = agent[a].call_id)
             => /\ DispatchKeys(h.cache, agent[a].call_id) = {}
                /\ \A k \in DOMAIN el_cache \ DispatchKeys(el_cache, agent[a].call_id) :
                      k \in DOMAIN h.cache

(***************************************************************************)
(* Properties of the agent's webhooks.                                     *)
(***************************************************************************)
\* C20: a webhook whose identifiers resolve to no call id is answered
\* normally and leaves every call's status, questions and answers as they
\* were.
C20_UnresolvedWebhookDropped ==
    [][(last'.route = "elevenlabs-webhook" /\ last'.call_id = 0)
          => /\ last'.code = 200
             /\ UNCHANGED <<calls, questions>>]_vars

\* An unresolved webhook has been handled while a call is ringing with its
\* questions stored.
C20_Witness ==
    /\ last.route = "elevenlabs-webhook"
    /\ last.call_id = 0
    /\ \E k \in DOMAIN calls :
          /\ calls[k].status = "ringing"
          /\ \E r \in DOMAIN questions : questions[r].call_id = k

\* C21: the webhook route of the agent answers every request with HTTP 200,
\* also when processing raises, and reports failure only in the body.
C21_WebhookAlways200 ==
    last.route = "elevenlabs-webhook" => last.code = 200

\* The tables after the webhooks of the two threads have been handled one
\* after the other, thread t first.
OneAfterTheOther(t, u) ==
    webhook_alone(webhook_alone(base, threads[t].event_type,
                                threads[t].db_call_id, threads[t].messages),
                  threads[u].event_type, threads[u].db_call_id,
                  threads[u].messages)

\* C23: when two webhooks of one call have been handled concurrently, the
\* tables are what handling them one after the other, in one of the two
\* orders, leaves.
C23_WebhooksSerialized ==
    (\A t \in Threads : threads[t].pc = "done")
    => Tables(calls, questions) \in { OneAfterTheOther(1, 2), OneAfterTheOther(2, 1) }

\* C32: table questions holds at most one row per call and question number,
\* also when one transcript webhook is delivered twice and the two
\* deliveries are handled concurrently.
C32_OneRowPerSlot ==
    \A r, q \in DOMAIN questions :
        (/\ questions[r].call_id = questions[q].call_id
         /\ questions[r].question_number = questions[q].question_number)
        => r = q

\* C30: started_at is unset in a row that is created or ringing, and once
\* written it is not changed by a later step.
C30_StartedAtOnInProgress ==
    [][/\ \A k \in DOMAIN calls' :
             calls'[k].status \in {"initiated", "ringing"}
             => calls'[k].started_at = "NULL"
       /\ \A k \in DOMAIN calls :
             calls[k].started_at # "NULL"
             => calls'[k].started_at = calls[k].started_at]_vars

\* The answers an answer record may hold.
AnswerValues == { "yes", "no", "unclear", "timeout" }

\* C35: every answer record written holds one of yes, no, unclear, timeout
\* and a confidence between 0 and 1, whatever Confidence the answer event
\* carried.
C35_AnswerAndConfidenceInRange ==
    \A r \in DOMAIN questions :
        questions[r].response # "NULL"
        => /\ questions[r].response \in AnswerValues
           /\ questions[r].response_confidence \in 0..100

\* C38: the question handle_voice_flow speaks for q_num = k, whose answer
\* process_answer stores under number k, is the text stored as question k of
\* the call, for every question list the start route accepts.
C38_SpokenIsStoredSlot ==
    \A i \in DOMAIN line, k \in QNums :
        LET call_id == line[i].call_id
            twiml == handle_voice_flow(vh_cache, calls, db_up, call_id, k).twiml
        IN  (call_id \in DOMAIN calls /\ twiml.verb = "gather")
            => /\ twiml.action_q = k
               /\ \A r \in AnswerRecords(call_id, k) :
                     questions[r].question_text = twiml.text

\* C36: a datastore write that fails does not change what the caller hears:
\* process_answer returns the same feedback and Redirect, and
\* handle_voice_flow, for a call whose questions the cache holds, the same
\* document (the thank-you at the end), as when the write succeeds.
C36_WriteFailureKeepsResponse ==
    \A i \in DOMAIN line, q \in QNums :
        /\ \A ev \in AnswerEvents :
              process_answer(questions, FALSE, line[i].call_id, q, ev).twiml
                 = process_answer(questions, TRUE, line[i].call_id, q, ev).twiml
        /\ cached_questions(vh_cache, line[i].call_id) # <<>>
           => handle_voice_flow(vh_cache, calls, FALSE, line[i].call_id, q).twiml
                 = handle_voice_flow(vh_cache, calls, TRUE, line[i].call_id, q).twiml

\* An answer was not saved and the thank-you was returned with the datastore
\* unreachable: the row of the call is not completed.
C36_Witness ==
    \E i \in DOMAIN line :
        /\ ~db_up
        /\ line[i].pc = "done"
        /\ line[i].via = "answer"
        /\ ~answered[i].saved
        /\ cached_questions(vh_cache, line[i].call_id) # <<>>
        /\ handle_voice_flow(vh_cache, calls, db_up, line[i].call_id,
                             line[i].q_num).twiml.say = "thank you"
        /\ line[i].call_id \in DOMAIN calls
        /\ calls[line[i].call_id].status # "completed"

(***************************************************************************)
(* Properties of the answer classifiers.                                   *)
(***************************************************************************)
Classified == cls_out # NotClassified

\* The speech of the event holds text other than blanks.
HasSpeech == Truthy(cls_in.speech) /\ Truthy(Strip(cls_in.speech))

HoldsYes == AnyIn(yes_keywords, Strip(Lower(cls_in.speech)))

HoldsNo == AnyIn(no_keywords, Strip(Lower(cls_in.speech)))

\* C13: for speech that is not blank, both classifiers answer yes when the
\* lowercased text holds a YES keyword as a substring, whether or not it
\* holds a NO keyword too; no when it holds a NO keyword and no YES keyword;
\* unclear when it holds neither.  "no yes" is yes and "know" is no.
C13_YesBeforeNo ==
    (Classified /\ HasSpeech)
    => /\ HoldsYes => (cls_out.ivr = "yes" /\ cls_out.agent = "yes")
       /\ (HoldsNo /\ ~HoldsYes) => (cls_out.ivr = "no" /\ cls_out.agent = "no")
       /\ (~HoldsNo /\ ~HoldsYes)
          => (cls_out.ivr = "unclear" /\ cls_out.agent = "unclear")
       /\ cls_in.speech = Join(<<W_no, W_yes>>) => cls_out.agent = "yes"
       /\ cls_in.speech = W_know => cls_out.agent = "no"
       /\ cls_in.speech = W_maybe => cls_out.agent = "unclear"

\* A reply holding a NO keyword before a YES keyword has been classified.
C13_Witness ==
    /\ Classified
    /\ cls_in.speech = Join(<<W_no, W_yes>>)
    /\ cls_out.ivr = "yes"

\* The event carries no keypad input.
NoDigits == ~Truthy(cls_in.digits)

\* The event carries speech that is a string of blanks, or the empty string.
BlankSpeech == cls_in.speech # NoneS /\ Strip(cls_in.speech) = <<>>

\* C14: an event without keypad input whose speech is empty or blank is
\* classified unclear by _extract_answer and (unclear, 0.0) by
\* process_answer, and process_answer answers timeout only when no text at
\* all was received.
C14_BlankIsUnclear ==
    (Classified /\ NoDigits)
    => /\ BlankSpeech => cls_out.agent = "unclear"
       /\ (BlankSpeech /\ cls_in.speech # <<>>)
          => (cls_out.ivr = "unclear" /\ cls_out.confidence = 0)
       /\ cls_out.ivr = "timeout" => ~Truthy(cls_in.speech)

\* C28: for an event whose speech is a non-empty text and that carries no
\* keypad input, process_answer and _extract_answer return the same answer,
\* one of yes, no, unclear.
C28_ChannelsClassifyAlike ==
    (Classified /\ NoDigits /\ Truthy(cls_in.speech))
    => /\ cls_out.ivr = cls_out.agent
       /\ cls_out.agent \in {"yes", "no", "unclear"}

\* The event carries keys of the keypad.
KeypadInput == cls_in.digits \in { <<"1">>, <<"2">>, <<"5">>, <<"*">> }

\* C15: for an event with keypad input and no speech, process_answer
\* answers yes (1.0) for 1, no (1.0) for 2 and unclear (0.3) for any other
\* key; the answer depends on the key alone.
C15_DigitsMapDirectly ==
    (Classified /\ ~HasSpeech /\ KeypadInput)
    => /\ cls_in.digits = <<"1">>
          => (cls_out.ivr = "yes" /\ cls_out.confidence = 100)
       /\ cls_in.digits = <<"2">>
          => (cls_out.ivr = "no" /\ cls_out.confidence = 100)
       /\ cls_in.digits \notin { <<"1">>, <<"2">> }
          => (cls_out.ivr = "unclear" /\ cls_out.confidence = 30)

\* Key 5 pressed without speech has been classified.
C15_Witness ==
    /\ Classified
    /\ cls_in.speech = NoneS
    /\ cls_in.digits = <<"5">>
    /\ cls_out.ivr = "unclear"

(***************************************************************************)
(* Properties of the transcript segmenter.                                 *)
(***************************************************************************)
PairNumbers == [k \in DOMAIN seg_state.questions_and_answers |->
                   seg_state.questions_and_answers[k].question_number]

PairAnswers == [k \in DOMAIN seg_state.questions_and_answers |->
                   seg_state.questions_and_answers[k].answer]

PairQuestions == { seg_state.questions_and_answers[k].question :
                      k \in DOMAIN seg_state.questions_and_answers }

\* C8: no pair carries the greeting or the confirmation as its question, and
\* over the example transcript the segmenter holds one pair (1, yes) after
\* the user turn that follows the confirmation and ends with exactly the
\* pairs (1, yes) and (2, no).
C8_GreetingAndConfirmationSkipped ==
    /\ PairQuestions \cap { T_greeting, T_confirmation } = {}
    /\ (seg_messages = ExampleTranscript /\ seg_i >= 3 /\ seg_i <= 6)
       => (PairNumbers = <<1>> /\ PairAnswers = <<"yes">>)
    /\ (seg_messages = ExampleTranscript /\ seg_i = 7)
       => (PairNumbers = <<1, 2>> /\ PairAnswers = <<"yes", "no">>)

\* The example transcript has been consumed to its end.
C8_Witness ==
    /\ seg_messages = ExampleTranscript
    /\ seg_i = Len(ExampleTranscript)
    /\ Len(seg_state.questions_and_answers) = 2

\* C9: the pairs carry strictly increasing question numbers, none above the
\* number of accepted questions, so an accepted question has at most one
\* pair; and while current_question is set, no pair carries the number of
\* the pending question, so current_question is null after a pair has been
\* emitted.
C9_OnePairPerQuestion ==
    /\ \A k \in DOMAIN PairNumbers :
          /\ PairNumbers[k] >= 1
          /\ PairNumbers[k] <= seg_state.question_num
          /\ \A j \in DOMAIN PairNumbers : j < k => PairNumbers[j] < PairNumbers[k]
    /\ seg_state.current_question # NoneS
       => \A k \in DOMAIN PairNumbers : PairNumbers[k] # seg_state.question_num

\* Two user turns in a row have been consumed after an accepted question:
\* the first was emitted, the second was not.
C9_Witness ==
    /\ seg_i >= 3
    /\ msg_role(seg_messages[seg_i], <<>>) = S_user
    /\ msg_role(seg_messages[seg_i - 1], <<>>) = S_user
    /\ seg_state.question_num = 1
    /\ Len(seg_state.questions_and_answers) = 1
    /\ seg_state.current_question = NoneS

\* C22: over a transcript whose turns are all of an unrecognised shape the
\* segmenter ends with an empty list of pairs and has not raised.
C22_MalformedYieldsEmpty ==
    (/\ seg_messages # <<>>
     /\ \A i \in DOMAIN seg_messages : seg_messages[i] \in MalformedTurns
     /\ seg_i = Len(seg_messages))
    => /\ ~seg_state.raised
       /\ seg_state.questions_and_answers = <<>>

(***************************************************************************)
(* Properties of the voice-agent channel.                                  *)
(***************************************************************************)
\* What handle_webhook does with a webhook of call a that carries the
\* identifier kinds in c.
Handled(a, event_type, c, messages, fetched) ==
    handle_webhook(event_type, carried_ids(a, c).conversation_id,
                   carried_ids(a, c).call_id, carried_ids(a, c).call_sid,
                   messages, fetched)

\* The datastore holds the row of call a with a provider reference.
Recorded(a) ==
    /\ agent[a].call_id \in DOMAIN calls
    /\ calls[agent[a].call_id].call_sid # NoneV

\* C6: for a call whose backend returned both references and whose row the
\* datastore holds, a call_started webhook carrying only the conversation
\* reference resolves to the call's id and moves the call to in-progress,
\* whatever the cache holds.
C6_ConversationResolvesFromStore ==
    \A a \in DOMAIN agent :
        (agent[a].reply = "both" /\ db_up /\ Recorded(a))
        => LET h == Handled(a, "call_started", {"conversation_id"}, <<>>, <<>>)
           IN  /\ h.db_call_id = agent[a].call_id
               /\ h.calls[agent[a].call_id].status = "in-progress"

\* C7: for a dispatched call whose cache entries are in place, with the
\* datastore unreachable, a webhook carrying only the call id, only the
\* call_sid or only the conversation reference resolves to the call's id.
C7_EveryIdentifierResolvesFromCache ==
    \A a \in DOMAIN agent :
        \A c \in { {"call_id"}, {"call_sid"}, {"conversation_id"} } :
            (/\ agent[a].reply = "both"
             /\ <<"call_sid", agent[a].call_id>> \in DOMAIN el_cache
             /\ ~db_up)
            => Handled(a, "call_ended", c, <<>>, <<>>).db_call_id
                  = agent[a].call_id

\* C10: a post_call_transcription webhook that resolves to a call the
\* reachable datastore holds leaves that call completed, whatever its
\* messages are.
C10_TranscriptCompletesCall ==
    \A a \in DOMAIN agent, c \in Carried, m \in WebhookMessages,
       f \in FetchedMessages :
        LET h == Handled(a, "post_call_transcription", c, m, f)
        IN  (/\ agent[a].reply # "error"
             /\ db_up
             /\ h.db_call_id = agent[a].call_id
             /\ agent[a].call_id \in DOMAIN calls)
            => h.calls[agent[a].call_id].status = "completed"

=============================================================================
